---- MODULE Spec2Model ----
(***************************************************************************)
(* Model of the ontology manager CreateOnto (src/ontology_generator.py).   *)
(*                                                                         *)
(* A Python string is a sequence of atoms.  The two characters the code    *)
(* splits on, ":" and "#", are atoms of their own; every maximal run of    *)
(* other characters is one atom.  So "xsd:string" is <<"xsd",":","string">>*)
(* and "https://localhost/myontology#" is                                  *)
(* <<"https", ":", "//localhost/myontology", "#">>.                        *)
(*                                                                         *)
(* A Python value (an rdflib term, a str, a number, a dict, None) is a      *)
(* record                                                                  *)
(* [t, v, lang, dt]: t its type, v its text, lang and dt the language and  *)
(* datatype of a Literal.  rdflib's URIRef, Literal and BNode all subclass *)
(* str, which isinstance(x, str) in the code observes.                     *)
(***************************************************************************)
EXTENDS Integers, Sequences, FiniteSets, TLC

VARIABLES
    ONTO,               \* self.ONTO / self.base_uri
    json_dir,           \* self.json_dir
    graph,              \* self.graph: the set of statements
    json_file_mapping,  \* self.json_file_mapping: identifier -> file
    bnodes,             \* number of anonymous nodes BNode() has handed out
    disk,               \* the files: path -> content
    calls,              \* number of public calls made so far
    op,                 \* the last operation called
    arg,                \* its arguments
    outcome,            \* "ok", or the exception it raised
    warned,             \* whether it printed the unknown-prefix warning
    ret,                \* what it returned (or built)
    pre,                \* the statements of the graph before it
    _paths,             \* JSONOntology._paths: the files of the source directory
    _entries            \* JSONOntology._entries: id -> item, in insertion order

vars == <<ONTO, json_dir, graph, json_file_mapping, bnodes, disk, calls,
          op, arg, outcome, warned, ret, pre, _paths, _entries>>

----------------------------------------------------------------------------
(* Strings *)

NoStr == <<>>

\* atoms that begin with "//"
SlashAtoms ==
    { "//localhost/myontology", "//example.org/onto", "//example.org/other",
      "//www.w3.org/2004/02/skos/core", "//www.w3.org/2002/07/owl",
      "//www.w3.org/1999/02/22-rdf-syntax-ns", "//www.w3.org/2000/01/rdf-schema",
      "//www.w3.org/2001/XMLSchema", "//data.europa.eu/s66",
      "//hpc-fair.github.io/ontology/" }

\* str.lower() of one atom
LowerAtom(a) ==
    CASE a = "XSD" -> "xsd"
      [] a = "Xsd" -> "xsd"
      [] a = "EURIO" -> "eurio"
      [] a = "Eurio" -> "eurio"
      [] a = "FOO" -> "foo"
      [] a = "Foo" -> "foo"
      [] a = "Bar" -> "bar"
      [] a = "Baz" -> "baz"
      [] a = "HTTP" -> "http"
      [] a = "Job" -> "job"
      [] a = "hasValue" -> "hasvalue"
      [] a = "hasUnit" -> "hasunit"
      [] a = "True" -> "true"
      [] a = "False" -> "false"
      [] OTHER -> a

Lower(s) == [i \in 1..Len(s) |-> LowerAtom(s[i])]

\* variant: only 'http://' is taken for an absolute URI
StartsWithHttpOnly(s) ==
    /\ Len(s) >= 3
    /\ s[1] = "http"
    /\ s[2] = ":"
    /\ s[3] \in SlashAtoms

\* s.startswith(('http://', 'https://'))
StartsWithScheme(s) ==
    /\ Len(s) >= 3
    /\ s[1] \in {"http", "https"}
    /\ s[2] = ":"
    /\ s[3] \in SlashAtoms

\* s.startswith('_:')
StartsWithBlank(s) ==
    /\ Len(s) >= 2
    /\ s[1] = "_"
    /\ s[2] = ":"

Contains(s, a) == \E i \in 1..Len(s) : s[i] = a

FirstIndex(s, a) == CHOOSE i \in 1..Len(s) : s[i] = a /\ \A j \in 1..(i-1) : s[j] # a

LastIndex(s, a) == CHOOSE i \in 1..Len(s) : s[i] = a /\ \A j \in (i+1)..Len(s) : s[j] # a

\* s.split("#")[-1]
LocalName(s) ==
    IF Contains(s, "#") THEN SubSeq(s, LastIndex(s, "#") + 1, Len(s)) ELSE s

EndsWithHash(s) == Len(s) > 0 /\ s[Len(s)] = "#"

----------------------------------------------------------------------------
(* Python values and rdflib terms *)

NoLang == "None"

Val(t, v, lang, dt) == [t |-> t, v |-> v, lang |-> lang, dt |-> dt]

URIRef(s) == Val("uri", s, NoLang, NoStr)
Literal(v, lang, dt) == Val("lit", v, lang, dt)
BNodeId(id) == Val("bnode", id, NoLang, NoStr)
PyStr(s) == Val("str", s, NoLang, NoStr)
PyInt(n) == Val("int", <<ToString(n)>>, NoLang, NoStr)
PyBool(b) == Val("bool", IF b THEN <<"True">> ELSE <<"False">>, NoLang, NoStr)
PyNone == Val("none", NoStr, NoLang, NoStr)
\* a dict {lang: text}: its items, in insertion order
PyDict(items) == Val("dict", items, NoLang, NoStr)
\* a list: its elements
PyList(elems) == Val("list", elems, NoLang, NoStr)
\* a dict of options: a function on its keys
PyConfig(f) == Val("config", f, NoLang, NoStr)

\* the n-th anonymous node BNode() hands out
BNode(n) == BNodeId(<<"N" \o ToString(n)>>)

\* isinstance(x, str): rdflib's Identifier subclasses str
IsStr(x) == x.t \in {"str", "uri", "lit", "bnode"}

IsURIRef(x) == x.t = "uri"
IsLiteral(x) == x.t = "lit"
IsBNode(x) == x.t = "bnode"

\* truth value of a Python value
Truthy(x) ==
    CASE x.t = "none" -> FALSE
      [] x.t = "int" -> x.v # <<"0">>
      [] x.t = "bool" -> x.v = <<"True">>
      [] x.t = "config" -> DOMAIN x.v # {}
      [] OTHER -> x.v # NoStr

----------------------------------------------------------------------------
(* Namespaces *)

DEFAULT_BASE_URI == <<"https", ":", "//localhost/myontology", "#">>

SKOS == <<"http", ":", "//www.w3.org/2004/02/skos/core", "#">>
OWL == <<"http", ":", "//www.w3.org/2002/07/owl", "#">>
RDF == <<"http", ":", "//www.w3.org/1999/02/22-rdf-syntax-ns", "#">>
RDFS == <<"http", ":", "//www.w3.org/2000/01/rdf-schema", "#">>
XSD == <<"http", ":", "//www.w3.org/2001/XMLSchema", "#">>
EURIO == <<"http", ":", "//data.europa.eu/s66", "#">>
HPC_ONTO == <<"https", ":", "//hpc-fair.github.io/ontology/", "#">>

\* Namespace(ns)[local]
Term(ns, local) == URIRef(ns \o local)

\* self.base_uri as __init__ computes it
base_uri(given) == IF EndsWithHash(given) THEN given ELSE given \o <<"#">>

\* self.graph.namespaces() after _bind_namespaces: (prefix, namespace) pairs
namespaces ==
    { <<<<"exa-atow">>, ONTO>>,
      <<<<"skos">>, SKOS>>,
      <<<<"owl">>, OWL>>,
      <<<<"rdf">>, RDF>>,
      <<<<"rdfs">>, RDFS>>,
      <<<<"xsd">>, XSD>>,
      <<<<"eurio">>, EURIO>>,
      <<<<"hpc_onto">>, HPC_ONTO>> }

----------------------------------------------------------------------------
(* _resolve_uri: the result is [ret, raised, warned] *)

Returns(x) == [ret |-> x, raised |-> "none", warned |-> FALSE]
Raises(e) == [ret |-> PyNone, raised |-> e, warned |-> FALSE]
WarnsAndReturns(x) == [ret |-> x, raised |-> "none", warned |-> TRUE]

\* variant: the unknown prefix falls back to the namespace argument
UnknownPrefixOverride(uri_or_name, namespace) ==
    WarnsAndReturns(Term(IF namespace # NoStr THEN namespace ELSE ONTO, uri_or_name))

\* the branch for an unknown prefix, lines 124-126
UnknownPrefix(uri_or_name, namespace) ==
    WarnsAndReturns(Term(ONTO, uri_or_name))

\* the branch for a prefixed name, lines 114-126
PrefixedName(uri_or_name, namespace) ==
    LET i == FirstIndex(uri_or_name, ":")
        prefix == SubSeq(uri_or_name, 1, i - 1)
        local == SubSeq(uri_or_name, i + 1, Len(uri_or_name))
        prefix_lower == Lower(prefix)
        found == { b \in namespaces : b[1] = prefix_lower }
    IN  IF found # {}
        THEN Returns(Term((CHOOSE b \in found : TRUE)[2], local))
        ELSE UnknownPrefix(uri_or_name, namespace)

\* the branch for a local name, lines 128-130
LocalNameIn(uri_or_name, namespace) ==
    LET ns == IF namespace # NoStr THEN namespace ELSE ONTO
    IN  Returns(Term(ns, uri_or_name))

_resolve_uri(uri_or_name, namespace) ==
    IF IsURIRef(uri_or_name) THEN Returns(uri_or_name)
    ELSE IF ~IsStr(uri_or_name) THEN Raises("ValueError")
    ELSE IF StartsWithScheme(uri_or_name.v) THEN Returns(URIRef(uri_or_name.v))
    ELSE IF Contains(uri_or_name.v, ":") THEN PrefixedName(uri_or_name.v, namespace)
    ELSE LocalNameIn(uri_or_name.v, namespace)

\* _resolve_uri(x) with the default namespace
Resolved(x) == _resolve_uri(x, NoStr).ret
Warned(x) == _resolve_uri(x, NoStr).warned

----------------------------------------------------------------------------
(* Vocabulary *)

\* RDF.type, RDF.first, ...: the terms of rdflib's RDF namespace the program names
RDF_ ==
    [ type |-> Term(RDF, <<"type">>),
      first |-> Term(RDF, <<"first">>),
      rest |-> Term(RDF, <<"rest">>),
      nil |-> Term(RDF, <<"nil">>) ]

\* the terms of RDFS
RDFS_ ==
    [ subClassOf |-> Term(RDFS, <<"subClassOf">>),
      comment |-> Term(RDFS, <<"comment">>),
      seeAlso |-> Term(RDFS, <<"seeAlso">>),
      domain |-> Term(RDFS, <<"domain">>),
      range |-> Term(RDFS, <<"range">>),
      Datatype |-> Term(RDFS, <<"Datatype">>) ]

\* the terms of SKOS
SKOS_ ==
    [ prefLabel |-> Term(SKOS, <<"prefLabel">>) ]

\* the terms of OWL
OWL_ ==
    [ Class |-> Term(OWL, <<"Class">>),
      Restriction |-> Term(OWL, <<"Restriction">>),
      equivalentClass |-> Term(OWL, <<"equivalentClass">>),
      oneOf |-> Term(OWL, <<"oneOf">>),
      intersectionOf |-> Term(OWL, <<"intersectionOf">>),
      onProperty |-> Term(OWL, <<"onProperty">>),
      onClass |-> Term(OWL, <<"onClass">>),
      someValuesFrom |-> Term(OWL, <<"someValuesFrom">>),
      allValuesFrom |-> Term(OWL, <<"allValuesFrom">>),
      hasValue |-> Term(OWL, <<"hasValue">>),
      cardinality |-> Term(OWL, <<"cardinality">>),
      minCardinality |-> Term(OWL, <<"minCardinality">>),
      maxCardinality |-> Term(OWL, <<"maxCardinality">>),
      qualifiedCardinality |-> Term(OWL, <<"qualifiedCardinality">>),
      minQualifiedCardinality |-> Term(OWL, <<"minQualifiedCardinality">>),
      maxQualifiedCardinality |-> Term(OWL, <<"maxQualifiedCardinality">>) ]

\* the datatypes of XSD, as a literal's datatype
XSD_ ==
    [ string |-> XSD \o <<"string">>,
      integer |-> XSD \o <<"integer">>,
      boolean |-> XSD \o <<"boolean">>,
      nonNegativeInteger |-> XSD \o <<"nonNegativeInteger">> ]

LANG == "en"

----------------------------------------------------------------------------
(* The object the handlers work on: [graph, json_file_mapping, bnodes,      *)
(* raised, warned].  raised is the exception that ended the call, "none"    *)
(* while it runs.                                                           *)

\* variant: Graph.set, which drops the subject's other values of the predicate
GraphSet(g, triple) ==
    { t \in g : ~(t[1] = triple[1] /\ t[2] = triple[2]) } \cup {triple}

\* Graph.add: the graph is a set of statements
GraphAdd(g, triple) == g \cup {triple}

Add(self, triple) == [self EXCEPT !.graph = GraphAdd(@, triple)]

Warn(self, w) == [self EXCEPT !.warned = @ \/ w]

Raise(self, e) == [self EXCEPT !.raised = e]

\* BNode(): the node is BNode(self.bnodes + 1)
Alloc(self) == [self EXCEPT !.bnodes = @ + 1]

\* a dict as a function: d.get(k), None when absent
Get(d, k) == IF k \in DOMAIN d THEN d[k] ELSE PyNone

\* os.path.join(self.json_dir, json_path); a path is its sequence of components
PathJoin(dir, path) == dir \o path

\* self.json_dir not in json_path, a substring test, on whole components
DirNotIn(dir, path) == ~\E i \in 1..Len(path) : <<path[i]>> = dir

_handle_json_path(self, identifier, json_path) ==
    IF json_path # NoStr
    THEN LET path == IF json_dir # NoStr /\ DirNotIn(json_dir, json_path)
                     THEN PathJoin(json_dir, json_path)
                     ELSE json_path
         IN  [self EXCEPT !.json_file_mapping =
                [k \in DOMAIN @ \cup {identifier} |->
                    IF k = identifier THEN path ELSE @[k]]]
    ELSE self

\* add_triple, lines 183-193
add_triple(self, subject, predicate, obj) ==
    LET s == IF IsStr(subject) THEN _resolve_uri(subject, NoStr) ELSE Returns(subject)
        p == IF IsStr(predicate) THEN _resolve_uri(predicate, NoStr) ELSE Returns(predicate)
        o == IF IsStr(obj) THEN _resolve_uri(obj, NoStr) ELSE Returns(obj)
        w == Warn(self, s.warned \/ p.warned \/ o.warned)
    IN  IF \A x \in {s.ret, p.ret, o.ret} : x.t \in {"uri", "lit", "bnode"}
        THEN Add(w, <<s.ret, p.ret, o.ret>>)
        ELSE Raise(w, "AssertionError")

\* one step of _add_multilingual_property's loop over value.items()
RECURSIVE AddLiterals(_, _, _, _)
AddLiterals(self, subject, predicate, items) ==
    IF items = <<>> THEN self
    ELSE AddLiterals(
            Add(self, <<subject, predicate, Literal(items[1][2], items[1][1], NoStr)>>),
            subject, predicate, Tail(items))

\* a dict {lang: text} is Val("dict", <<<<lang, text>>, ...>>) in insertion order
_add_multilingual_property(self, subject, predicate, value) ==
    IF value.t = "dict"
    THEN AddLiterals(self, subject, predicate, value.v)
    ELSE Add(self, <<subject, predicate, Literal(value.v, LANG, NoStr)>>)

\* Literal(value) of a Python value: rdflib picks the datatype from its type
PyLiteral(value) ==
    CASE value.t = "int" -> Literal(value.v, NoLang, XSD_.integer)
      [] value.t = "bool" -> Literal(Lower(value.v), NoLang, XSD_.boolean)
      [] OTHER -> Literal(value.v, NoLang, NoStr)

----------------------------------------------------------------------------
(* Ordered lists *)

\* _create_list's loop: current_node holds values[i]
RECURSIVE CreateListFrom(_, _, _, _, _)
CreateListFrom(self, current_node, values, i, datatype) ==
    IF i > Len(values) THEN self
    ELSE LET lit == IF datatype THEN Literal(values[i].v, NoLang, XSD_.string)
                    ELSE PyLiteral(values[i])
             s1 == Add(self, <<current_node, RDF_.first, lit>>)
         IN  IF i = Len(values)
             THEN Add(s1, <<current_node, RDF_.rest, RDF_.nil>>)
             ELSE LET next_node == BNode(s1.bnodes + 1)
                  IN  CreateListFrom(
                        Add(Alloc(s1), <<current_node, RDF_.rest, next_node>>),
                        next_node, values, i + 1, datatype)

\* variant: the loop compares i with len(values), so no cell is the last
RECURSIVE CreateListUnterminated(_, _, _, _, _)
CreateListUnterminated(self, current_node, values, i, datatype) ==
    IF i > Len(values) THEN self
    ELSE LET next_node == BNode(self.bnodes + 1)
         IN  CreateListUnterminated(
                Add(Add(Alloc(self),
                        <<current_node, RDF_.first, Literal(values[i].v, NoLang, XSD_.string)>>),
                    <<current_node, RDF_.rest, next_node>>),
                next_node, values, i + 1, datatype)

_create_list_unterminated(self, values, datatype) ==
    CreateListUnterminated(Alloc(self), BNode(self.bnodes + 1), values, 1, datatype)

\* _create_list: the list's head is BNode(self.bnodes + 1)
_create_list(self, values, datatype) ==
    CreateListFrom(Alloc(self), BNode(self.bnodes + 1), values, 1, datatype)

\* rdflib's Collection.__iadd__, its loop: end is the last cell so far
RECURSIVE CollectionAppend(_, _, _)
CollectionAppend(self, end, seq) ==
    IF seq = <<>> THEN Add(self, <<end, RDF_.rest, RDF_.nil>>)
    ELSE IF \E t \in self.graph : t[1] = end /\ t[2] = RDF_.first
         THEN LET nxt == BNode(self.bnodes + 1)
              IN  CollectionAppend(
                    Add(Add(Alloc(self), <<end, RDF_.rest, nxt>>),
                        <<nxt, RDF_.first, Head(seq)>>),
                    nxt, Tail(seq))
         ELSE CollectionAppend(Add(self, <<end, RDF_.first, Head(seq)>>), end, Tail(seq))

\* Collection(self.graph, uri, seq), uri a node BNode() has just handed out:
\* the list's end is uri itself, whose "rest" statements are removed first
Collection(self, uri, seq) ==
    IF seq = <<>> THEN self
    ELSE CollectionAppend(
            [self EXCEPT !.graph = { t \in @ : ~(t[1] = uri /\ t[2] = RDF_.rest) }],
            uri, seq)

----------------------------------------------------------------------------
(* Restrictions and cardinalities; a config dict is a function on its keys *)

_add_restriction(self, class_uri, restriction_config) ==
    LET restriction == BNode(self.bnodes + 1)
        s1 == Add(Add(Alloc(self), <<class_uri, RDFS_.subClassOf, restriction>>),
                  <<restriction, RDF_.type, OWL_.Restriction>>)
        cfg == restriction_config
    IN  IF "property" \notin DOMAIN cfg THEN Raise(s1, "KeyError")
        ELSE LET s2 == Add(Warn(s1, Warned(cfg["property"])),
                           <<restriction, OWL_.onProperty, Resolved(cfg["property"])>>)
             IN  IF "some_values_from" \in DOMAIN cfg
                 THEN Add(Warn(s2, Warned(cfg["some_values_from"])),
                          <<restriction, OWL_.someValuesFrom, Resolved(cfg["some_values_from"])>>)
                 ELSE IF "all_values_from" \in DOMAIN cfg
                 THEN Add(Warn(s2, Warned(cfg["all_values_from"])),
                          <<restriction, OWL_.allValuesFrom, Resolved(cfg["all_values_from"])>>)
                 ELSE IF "has_value" \in DOMAIN cfg
                 THEN Add(Warn(s2, Warned(cfg["has_value"])),
                          <<restriction, OWL_.hasValue, Resolved(cfg["has_value"])>>)
                 ELSE s2

RECURSIVE AddRestrictions(_, _, _)
AddRestrictions(self, class_uri, restrictions) ==
    IF restrictions = <<>> \/ self.raised # "none" THEN self
    ELSE AddRestrictions(_add_restriction(self, class_uri, Head(restrictions).v),
                         class_uri, Tail(restrictions))

\* Literal(n, datatype=XSD.nonNegativeInteger)
Count(n) == Literal(n.v, NoLang, XSD_.nonNegativeInteger)

\* self.graph.add((restriction, OWL.onClass, self._resolve_uri(on_class)))
AddOnClass(self, restriction, on_class) ==
    Add(Warn(self, Warned(on_class)), <<restriction, OWL_.onClass, Resolved(on_class)>>)

\* variant: the exact cardinality is never qualified
CardinalityExactlyPlain(self, restriction, cfg, on_class) ==
    IF Truthy(on_class)
    THEN AddOnClass(Add(self, <<restriction, OWL_.cardinality, Count(cfg["exactly"])>>),
                    restriction, on_class)
    ELSE Add(self, <<restriction, OWL_.cardinality, Count(cfg["exactly"])>>)

\* lines 341-348
CardinalityExactly(self, restriction, cfg, on_class) ==
    IF Truthy(on_class)
    THEN AddOnClass(Add(self, <<restriction, OWL_.qualifiedCardinality, Count(cfg["exactly"])>>),
                    restriction, on_class)
    ELSE Add(self, <<restriction, OWL_.cardinality, Count(cfg["exactly"])>>)

\* lines 350-357
CardinalityMin(self, restriction, cfg, on_class) ==
    IF "min" \notin DOMAIN cfg THEN self
    ELSE IF Truthy(on_class)
    THEN AddOnClass(Add(self, <<restriction, OWL_.minQualifiedCardinality, Count(cfg["min"])>>),
                    restriction, on_class)
    ELSE Add(self, <<restriction, OWL_.minCardinality, Count(cfg["min"])>>)

\* variant: onClass is left to the min branch in every case
CardinalityMaxNoOnClass(self, restriction, cfg, on_class) ==
    IF "max" \notin DOMAIN cfg THEN self
    ELSE IF Truthy(on_class)
    THEN Add(self, <<restriction, OWL_.maxQualifiedCardinality, Count(cfg["max"])>>)
    ELSE Add(self, <<restriction, OWL_.maxCardinality, Count(cfg["max"])>>)

\* lines 359-368
CardinalityMax(self, restriction, cfg, on_class) ==
    IF "max" \notin DOMAIN cfg THEN self
    ELSE IF Truthy(on_class)
    THEN LET s1 == Add(self, <<restriction, OWL_.maxQualifiedCardinality, Count(cfg["max"])>>)
         IN  IF "min" \notin DOMAIN cfg THEN AddOnClass(s1, restriction, on_class) ELSE s1
    ELSE Add(self, <<restriction, OWL_.maxCardinality, Count(cfg["max"])>>)

\* lines 338-368
CardinalityPredicates(self, restriction, cfg) ==
    LET on_class == Get(cfg, "on_class")
    IN  IF "exactly" \in DOMAIN cfg
        THEN CardinalityExactly(self, restriction, cfg, on_class)
        ELSE CardinalityMax(CardinalityMin(self, restriction, cfg, on_class),
                            restriction, cfg, on_class)

_add_cardinality(self, class_uri, cardinality_config) ==
    LET equiv_class == BNode(self.bnodes + 1)
        restriction == BNode(self.bnodes + 2)
        intersection_node == BNode(self.bnodes + 3)
        s0 == [self EXCEPT !.bnodes = @ + 3]
        s1 == Add(Add(Add(s0, <<class_uri, OWL_.equivalentClass, equiv_class>>),
                      <<equiv_class, RDF_.type, OWL_.Class>>),
                  <<equiv_class, OWL_.intersectionOf, intersection_node>>)
        s2 == Add(Collection(s1, intersection_node, <<class_uri, restriction>>),
                  <<restriction, RDF_.type, OWL_.Restriction>>)
        cfg == cardinality_config
    IN  IF "property" \notin DOMAIN cfg THEN Raise(s2, "KeyError")
        ELSE CardinalityPredicates(
                Add(Warn(s2, Warned(cfg["property"])),
                    <<restriction, OWL_.onProperty, Resolved(cfg["property"])>>),
                restriction, cfg)

----------------------------------------------------------------------------
(* The handlers; a is the record of a call's arguments, None for an         *)
(* argument left out.                                                       *)

Ok(self) == self.raised = "none"

\* self.graph.add((subject, predicate, self._resolve_uri(x))) when x is given
AddResolved(self, subject, predicate, x) ==
    IF Ok(self) /\ Truthy(x)
    THEN Add(Warn(self, Warned(x)), <<subject, predicate, Resolved(x)>>)
    ELSE self

\* self._add_multilingual_property(subject, predicate, value) when value is given
AddLabels(self, subject, predicate, value) ==
    IF Ok(self) /\ Truthy(value)
    THEN _add_multilingual_property(self, subject, predicate, value)
    ELSE self

RECURSIVE ResolveAll(_)
ResolveAll(items) ==
    IF items = <<>> THEN <<>> ELSE <<Resolved(Head(items))>> \o ResolveAll(Tail(items))

AnyWarned(items) == \E i \in 1..Len(items) : Warned(items[i])

\* add_class, lines 243-259
OneOf(self, class_uri, one_of) ==
    IF Truthy(one_of)
    THEN LET individual_uris == ResolveAll(one_of.v)
             collection == BNode(self.bnodes + 1)
             restriction == BNode(self.bnodes + 2)
             s1 == Add([self EXCEPT !.bnodes = @ + 2],
                       <<class_uri, OWL_.equivalentClass, collection>>)
             s2 == Add(Add(s1, <<collection, RDF_.type, OWL_.Class>>),
                       <<collection, OWL_.oneOf, restriction>>)
         IN  Collection(Warn(s2, AnyWarned(one_of.v)), restriction, individual_uris)
    ELSE self

add_class(self, a) ==
    LET r == _resolve_uri(a.class_name, NoStr)
        class_uri == r.ret
        \* lines 262-264
        WithRestrictions(s) ==
            IF Truthy(a.restrictions)
            THEN AddRestrictions(s, class_uri, a.restrictions.v)
            ELSE s
        \* lines 267-268
        WithCardinality(s) ==
            IF Ok(s) /\ Truthy(a.cardinality)
            THEN _add_cardinality(s, class_uri, a.cardinality.v)
            ELSE s
        \* lines 271-272
        WithLink(s) ==
            IF Ok(s) /\ Truthy(a.link_html)
            THEN Add(s, <<class_uri, RDFS_.seeAlso, URIRef(a.link_html.v)>>)
            ELSE s
        s1 == _handle_json_path(self, a.class_name, a.json_path)
        s2 == add_triple(Warn(s1, r.warned), class_uri, RDF_.type, OWL_.Class)
        s3 == AddResolved(s2, class_uri, RDFS_.subClassOf, a.parent_class)
        s4 == AddResolved(s3, class_uri, OWL_.equivalentClass, a.equivalent)
        s5 == OneOf(s4, class_uri, a.one_of)
        s6 == WithLink(WithCardinality(WithRestrictions(s5)))
        s7 == AddLabels(s6, class_uri, SKOS_.prefLabel, a.pref_label)
    IN  IF r.raised # "none" THEN Raise(s1, r.raised)
        ELSE AddLabels(s7, class_uri, RDFS_.comment, a.comment)

\* the keys of property_types, lines 451-455
property_types == {"ObjectProperty", "DatatypeProperty", "AnnotationProperty"}

\* variant: the type is looked up without the membership test
CheckPropertyTypeUnchecked(self, property_type) == self

\* lines 457-459
CheckPropertyType(self, property_type) ==
    IF property_type \notin property_types THEN Raise(self, "ValueError") ELSE self

RECURSIVE AddDomains(_, _, _)
AddDomains(self, property_uri, domains) ==
    IF domains = <<>> THEN self
    ELSE AddDomains(AddResolved(self, property_uri, RDFS_.domain, Head(domains)),
                    property_uri, Tail(domains))

add_property(self, a) ==
    LET r == _resolve_uri(a.property_name, NoStr)
        property_uri == r.ret
        \* line 462
        WithType(s) ==
            IF Ok(s)
            THEN Add(s, <<property_uri, RDF_.type, Term(OWL, <<a.property_type>>)>>)
            ELSE s
        \* lines 465-469
        WithDomain(s) ==
            IF Ok(s) /\ Truthy(a.domain)
            THEN AddDomains(s, property_uri,
                    IF a.domain.t = "list" THEN a.domain.v ELSE <<a.domain>>)
            ELSE s
        \* lines 472-474
        WithRange(s) ==
            IF Ok(s) /\ Truthy(a.range_)
            THEN IF IsStr(a.range_)
                 THEN AddResolved(s, property_uri, RDFS_.range, a.range_)
                 ELSE Add(s, <<property_uri, RDFS_.range, a.range_>>)
            ELSE s
        s1 == _handle_json_path(self, a.property_name, a.json_path)
        s2 == CheckPropertyType(Warn(s1, r.warned), a.property_type)
        s3 == WithRange(WithDomain(WithType(s2)))
        s4 == AddLabels(s3, property_uri, SKOS_.prefLabel, a.pref_label)
    IN  IF r.raised # "none" THEN Raise(s1, r.raised)
        ELSE AddLabels(s4, property_uri, RDFS_.comment, a.comment)

add_restriction_to_class(self, a) ==
    LET class_uri == Resolved(a.class_name)
        restriction_bnode == BNode(self.bnodes + 1)
        \* lines 539-549
        WithValues(s) ==
            IF Truthy(a.enumeration)
            THEN LET datatype_bnode == BNode(s.bnodes + 1)
                     enum_list == BNode(s.bnodes + 2)
                 IN  Add(Add(Add(_create_list(Alloc(s), a.enumeration.v, TRUE),
                                 <<datatype_bnode, RDF_.type, RDFS_.Datatype>>),
                             <<datatype_bnode, OWL_.oneOf, enum_list>>),
                         <<restriction_bnode, OWL_.allValuesFrom, datatype_bnode>>)
            ELSE IF Truthy(a.all_values_from)
            THEN IF IsStr(a.all_values_from)
                 THEN AddResolved(s, restriction_bnode, OWL_.allValuesFrom, a.all_values_from)
                 ELSE Add(s, <<restriction_bnode, OWL_.allValuesFrom, a.all_values_from>>)
            ELSE s
        s1 == Add(Alloc(Warn(self, Warned(a.class_name))),
                  <<restriction_bnode, RDF_.type, OWL_.Restriction>>)
        s2 == Add(Warn(s1, Warned(a.property_name)),
                  <<restriction_bnode, OWL_.onProperty, Resolved(a.property_name)>>)
        s3 == AddLabels(WithValues(s2), restriction_bnode, RDFS_.comment, a.comment)
    IN  Add(s3, <<class_uri, RDFS_.subClassOf, restriction_bnode>>)

\* the RDF term add_instance makes of one property value, lines 663-688
rdf_value(value) ==
    IF value.t \in {"uri", "lit", "bnode"} THEN Returns(value)
    ELSE IF value.t = "str"
    THEN IF StartsWithScheme(value.v) THEN Returns(URIRef(value.v))
         ELSE IF Contains(value.v, ":") /\ ~StartsWithBlank(value.v)
         THEN _resolve_uri(value, NoStr)
         ELSE IF StartsWithBlank(value.v)
         THEN Returns(BNodeId(SubSeq(value.v, 3, Len(value.v))))
         ELSE Returns(Literal(value.v, NoLang, NoStr))
    ELSE IF value.t \in {"bool", "int"} THEN Returns(PyLiteral(value))
    ELSE Returns(Literal(<<"None">>, NoLang, NoStr))

RECURSIVE AddValues(_, _, _, _)
AddValues(self, instance_uri, prop_uri, value_list) ==
    IF value_list = <<>> \/ ~Ok(self) THEN self
    ELSE LET v == rdf_value(Head(value_list))
         IN  AddValues(add_triple(Warn(self, v.warned), instance_uri, prop_uri, v.ret),
                       instance_uri, prop_uri, Tail(value_list))

\* properties.items() is a sequence of <<prop_name, values>>
RECURSIVE AddProperties(_, _, _)
AddProperties(self, instance_uri, items) ==
    IF items = <<>> \/ ~Ok(self) THEN self
    ELSE LET prop_name == Head(items)[1]
             values == Head(items)[2]
             value_list == IF values.t = "list" THEN values.v ELSE <<values>>
         IN  AddProperties(
                AddValues(Warn(self, Warned(prop_name)), instance_uri,
                          Resolved(prop_name), value_list),
                instance_uri, Tail(items))

RECURSIVE AddTypes(_, _, _)
AddTypes(self, instance_uri, class_types) ==
    IF class_types = <<>> \/ ~Ok(self) THEN self
    ELSE AddTypes(
            add_triple(Warn(self, Warned(Head(class_types))), instance_uri, RDF_.type,
                       Resolved(Head(class_types))),
            instance_uri, Tail(class_types))

add_instance(self, a) ==
    LET r == _resolve_uri(a.instance_name, NoStr)
        instance_uri == r.ret
        class_types == IF a.class_type.t = "list" THEN a.class_type.v ELSE <<a.class_type>>
        \* lines 654-690
        WithProperties(s) ==
            IF Ok(s) /\ Truthy(a.properties)
            THEN AddProperties(s, instance_uri, a.properties.v)
            ELSE s
        s1 == _handle_json_path(self, a.instance_name, a.json_path)
        s2 == AddTypes(Warn(s1, r.warned), instance_uri, class_types)
        s3 == AddLabels(s2, instance_uri, SKOS_.prefLabel, a.pref_label)
        s4 == AddLabels(s3, instance_uri, RDFS_.comment, a.comment)
    IN  IF r.raised # "none" THEN Raise(s1, r.raised)
        ELSE WithProperties(s4)

----------------------------------------------------------------------------
(* Construction *)

PropertyArgs(name, type, domain, range, comment, pref_label, json_path) ==
    [property_name |-> name, property_type |-> type, domain |-> domain, range_ |-> range,
     comment |-> comment, pref_label |-> pref_label, json_path |-> json_path]

\* _init_basic_structure, lines 732-744
_init_basic_structure(self) ==
    add_property(
        add_property(self,
            PropertyArgs(PyStr(<<"hasValue">>), "DatatypeProperty", PyNone,
                PyStr(<<"XSD", ":", "decimal">>),
                PyDict(<< <<"en", <<"Numeric value.">> >>, <<"fr", <<"Valeur numerique">> >> >>),
                PyDict(<< <<"en", <<"has numeric value">> >>, <<"fr", <<"a valeur numerique">> >> >>),
                NoStr)),
        PropertyArgs(PyStr(<<"hasUnit">>), "DatatypeProperty", PyNone,
            PyStr(<<"XSD", ":", "string">>),
            PyDict(<< <<"en", <<"Unit of measurement.">> >>, <<"fr", <<"Unite de mesure">> >> >>),
            PyDict(<< <<"en", <<"has unit">> >>, <<"fr", <<"a unite">> >> >>),
            NoStr))

----------------------------------------------------------------------------
(* Files.  A path is the sequence of its components.  A JSON file holds a   *)
(* list of records; a record is the sequence of its <<key, value>> items in *)
(* order, a key the text <<"id">>, a value a str, a list, a dict or a       *)
(* config.                                                                  *)

JsonFile(items) == [kind |-> "json", items |-> items, triples |-> {}]

\* a file json.load fails on
Malformed == [kind |-> "malformed", items |-> <<>>, triples |-> {}]

\* a serialized graph
RdfFile(format, g) == [kind |-> format, items |-> <<>>, triples |-> g]

Exists(d, path) == path \in DOMAIN d

WriteTo(d, path, file) == [p \in DOMAIN d \cup {path} |-> IF p = path THEN file ELSE d[p]]

FILES_DIR == <<"files">>

LabelA == Val("dict", << <<"en", Val("str", <<"a">>, NoLang, NoStr)>> >>, NoLang, NoStr)

LabelAB ==
    Val("dict", << <<"en", Val("str", <<"a">>, NoLang, NoStr)>>,
                   <<"fr", Val("str", <<"b">>, NoLang, NoStr)>> >>, NoLang, NoStr)

ClassesJson ==
    << << << <<"id">>, PyStr(<<"Foo">>) >>, << <<"pref_label">>, LabelAB >>,
          << <<"comment">>, LabelA >> >>,
       << << <<"id">>, PyStr(<<"Bar">>) >>, << <<"parent_class">>, PyStr(<<"Foo">>) >>,
          << <<"pref_label">>, LabelA >>, << <<"comment">>, LabelA >> >> >>

\* the second record has no comment
ShortJson ==
    << << << <<"id">>, PyStr(<<"Baz">>) >>, << <<"pref_label">>, LabelA >>,
          << <<"comment">>, LabelA >> >>,
       << << <<"id">>, PyStr(<<"Foo">>) >>, << <<"pref_label">>, LabelA >> >> >>

\* the two records have the same id
DupJson ==
    << << << <<"id">>, PyStr(<<"Foo">>) >>, << <<"pref_label">>, LabelA >>,
          << <<"comment">>, LabelA >> >>,
       << << <<"id">>, PyStr(<<"Foo">>) >>, << <<"pref_label">>, LabelA >>,
          << <<"comment">>, LabelA >> >> >>

\* the parent is named by a prefixed name
PrefixedJson ==
    << << << <<"id">>, PyStr(<<"Job">>) >>,
          << <<"parent_class">>, PyStr(<<"eurio", ":", "Task">>) >>,
          << <<"pref_label">>, LabelAB >>, << <<"comment">>, LabelA >> >> >>

\* the second record's property_type is no OWL property type
PropertiesJson ==
    << << << <<"id">>, PyStr(<<"hasJob">>) >>, << <<"domain">>, PyStr(<<"Foo">>) >>,
          << <<"range">>, PyStr(<<"Job">>) >>, << <<"pref_label">>, LabelA >> >>,
       << << <<"id">>, PyStr(<<"hasUnit">>) >>,
          << <<"property_type">>, PyStr(<<"FunctionalProperty">>) >> >> >>

InstancesJson ==
    << << << <<"id">>, PyStr(<<"job1">>) >>, << <<"class_type">>, PyStr(<<"Job">>) >>,
          << <<"pref_label">>, LabelA >>,
          << <<"properties">>,
             PyDict(<< <<PyStr(<<"hasValue">>), PyInt(3)>>,
                       <<PyStr(<<"hasUnit">>), PyStr(<<"a">>)>> >>) >> >> >>

RestrictionsJson ==
    << << << <<"class_name">>, PyStr(<<"Foo">>) >>,
          << <<"restrictions">>,
             PyList(<< << << <<"property_name">>, PyStr(<<"hasUnit">>) >>,
                          << <<"enumeration">>,
                             PyList(<<PyStr(<<"a">>), PyStr(<<"b">>)>>) >> >>,
                       << << <<"property_name">>, PyStr(<<"hasValue">>) >>,
                          << <<"all_values_from">>, PyStr(<<"xsd", ":", "decimal">>) >>,
                          << <<"comment">>, LabelA >> >> >>) >> >> >>

\* the files the program starts with
Disk0 ==
    [p \in { FILES_DIR \o <<f>> : f \in {"classes.json", "short.json", "properties.json",
                                         "instances.json", "restrictions.json",
                                         "dup.json", "prefixed.json",
                                         "broken.json"} } |->
        CASE p[2] = "classes.json" -> JsonFile(ClassesJson)
          [] p[2] = "prefixed.json" -> JsonFile(PrefixedJson)
          [] p[2] = "short.json" -> JsonFile(ShortJson)
          [] p[2] = "dup.json" -> JsonFile(DupJson)
          [] p[2] = "properties.json" -> JsonFile(PropertiesJson)
          [] p[2] = "instances.json" -> JsonFile(InstancesJson)
          [] p[2] = "restrictions.json" -> JsonFile(RestrictionsJson)
          [] OTHER -> Malformed]

\* the state __init__ starts _init_basic_structure from, lines 55-63
New == [graph |-> {}, json_file_mapping |-> <<>>, bnodes |-> 0,
        raised |-> "none", warned |-> FALSE]

\* the base URIs an ontology is constructed with
BaseUris == { DEFAULT_BASE_URI, <<"http", ":", "//example.org/onto">> }

\* FILES_DIR when that directory exists, "" when it does not
JsonDirs == { NoStr, <<"files">> }

\* the state after CreateOnto(b), b one of bases, with json_dir one of dirs
Constructed(bases, dirs) ==
    /\ ONTO \in { base_uri(b) : b \in bases }
    /\ json_dir \in dirs
    /\ graph = _init_basic_structure(New).graph
    /\ json_file_mapping = _init_basic_structure(New).json_file_mapping
    /\ bnodes = _init_basic_structure(New).bnodes
    /\ disk = Disk0
    /\ calls = 0
    /\ op = "__init__"
    /\ arg = PyNone
    /\ outcome = "ok"
    /\ warned = FALSE
    /\ ret = PyNone
    /\ pre = {}
    /\ _paths = <<>>
    /\ _entries = <<>>

\* CreateOnto(), with or without the files directory
Init == Constructed({DEFAULT_BASE_URI}, JsonDirs)

\* CreateOnto(b) for the default and for another base URI
InitAnyBase == Constructed(BaseUris, JsonDirs)

\* CreateOnto() where no call names a file
InitNoFiles == Constructed({DEFAULT_BASE_URI}, {NoStr})

\* the object a call starts from
Self == [graph |-> graph, json_file_mapping |-> json_file_mapping, bnodes |-> bnodes,
         raised |-> "none", warned |-> FALSE]

\* a call of a handler that took Self to self and the files to d, and
\* returned r
Returned(name, a, self, d, r) ==
    /\ op' = name
    /\ arg' = a
    /\ outcome' = IF self.raised = "none" THEN "ok" ELSE self.raised
    /\ warned' = self.warned
    /\ graph' = self.graph
    /\ json_file_mapping' = self.json_file_mapping
    /\ bnodes' = self.bnodes
    /\ disk' = d
    /\ ret' = r
    /\ pre' = graph
    /\ UNCHANGED <<ONTO, json_dir, _paths, _entries>>

\* a call of a handler that returns None
CalledWith(name, a, self, d) == Returned(name, a, self, d, PyNone)

\* a call of a handler that writes no file
Called(name, a, self) == CalledWith(name, a, self, disk)

----------------------------------------------------------------------------
(* create_json_mapping.  A Python dict is the sequence of its <<key, value>> *)
(* items in insertion order.                                                 *)

HasKey(d, k) == \E i \in 1..Len(d) : d[i][1] = k

ItemOf(d, k) == d[CHOOSE i \in 1..Len(d) : d[i][1] = k][2]

\* d[k] = v: a new key goes last, a known key keeps its place
SetItem(d, k, v) ==
    IF HasKey(d, k)
    THEN [i \in 1..Len(d) |-> IF d[i][1] = k THEN <<k, v>> ELSE d[i]]
    ELSE Append(d, <<k, v>>)

\* the language codes, in the order str compares them
LangCodes == <<"de", "en", "fr">>

\* variant: the merged dict is kept in insertion order
Unsorted(items) == items

\* dict(sorted(tmp.items())) for str keys
Sorted(items) ==
    LET ks == SelectSeq(LangCodes, LAMBDA c : HasKey(items, c))
    IN  [i \in 1..Len(ks) |-> <<ks[i], ItemOf(items, ks[i])>>]

\* sorted() compares None with a str
SortRaises(items) == Len(items) >= 2 /\ HasKey(items, NoLang)

\* variant: the table has no entry for "type"
translateKeepType(key) ==
    CASE key = <<"prefLabel">> -> <<"pref_label">>
      [] key = <<"subClassOf">> -> <<"parent_class">>
      [] OTHER -> key

\* translate.get(key, key), lines 869-873 and 890; None is <<>>
translate(key) ==
    CASE key = <<"prefLabel">> -> <<"pref_label">>
      [] key = <<"subClassOf">> -> <<"parent_class">>
      [] key = <<"type">> -> NoStr
      [] OTHER -> key

\* Literal.value: the Python value of a literal
LiteralValue(o) ==
    IF o.dt \in {XSD_.integer, XSD_.nonNegativeInteger} THEN Val("int", o.v, NoLang, NoStr)
    ELSE IF o.dt = XSD_.boolean THEN PyBool(o.v = <<"true">>)
    ELSE PyStr(o.v)

\* lines 894-901: the value of one statement's object
JsonValue(o) ==
    IF IsURIRef(o) THEN PyStr(LocalName(o.v))
    ELSE PyDict(<< <<o.lang, LiteralValue(o)>> >>)

\* lines 907-912: tmp.update(val), then the sorted copy
MergeInto(tmp, val) ==
    IF val.t = "dict"
    THEN LET merged == SetItem(tmp, val.v[1][1], val.v[1][2])
         IN  IF SortRaises(merged) THEN [raised |-> "TypeError", val |-> PyNone]
             ELSE [raised |-> "none", val |-> PyDict(Sorted(merged))]
    ELSE IF val.v # NoStr THEN [raised |-> "ValueError", val |-> PyNone]
    ELSE IF SortRaises(tmp) THEN [raised |-> "TypeError", val |-> PyNone]
    ELSE [raised |-> "none", val |-> PyDict(Sorted(tmp))]

\* the loop body, lines 876-914, on acc = [data, raised]
JsonItem(acc, item) ==
    LET id == LocalName(item[1].v)
        key == translate(LocalName(item[2].v))
        o == item[3]
    IN  IF acc.raised # "none" \/ key = NoStr \/ ~(IsURIRef(o) \/ IsLiteral(o)) THEN acc
        ELSE
        LET val == JsonValue(o)
            fields == IF HasKey(acc.data, id) THEN ItemOf(acc.data, id) ELSE <<>>
        IN  IF HasKey(fields, key) /\ ItemOf(fields, key).t = "dict"
            THEN LET m == MergeInto(ItemOf(fields, key).v, val)
                 IN  IF m.raised # "none"
                     THEN [data |-> SetItem(acc.data, id, fields), raised |-> m.raised]
                     ELSE [data |-> SetItem(acc.data, id, SetItem(fields, key, m.val)),
                           raised |-> "none"]
            ELSE [data |-> SetItem(acc.data, id, SetItem(fields, key, val)),
                  raised |-> "none"]

RECURSIVE JsonScan(_, _)
JsonScan(acc, scan) ==
    IF scan = <<>> THEN acc ELSE JsonScan(JsonItem(acc, Head(scan)), Tail(scan))

\* create_json_mapping when "for item in self.graph" yields the statements in
\* the order scan
create_json_mapping(scan) == JsonScan([data |-> <<>>, raised |-> "none"], scan)

\* the orders a set of statements can be scanned in
Orders(S) ==
    { f \in [1..Cardinality(S) -> S] : \A i, j \in 1..Cardinality(S) : f[i] = f[j] => i = j }

----------------------------------------------------------------------------
(* The language-literal codec on its own: expand a mapping, collapse it     *)

Texts == { <<"a">>, <<"b">> }

MaxLangs == 3

\* dicts {lang: text} with unique keys, in every insertion order
LangDicts ==
    { d \in UNION { [1..n -> {"de", "en", "fr"} \X Texts] : n \in 0..MaxLangs } :
        \A i, j \in 1..Len(d) : d[i][1] = d[j][1] => i = j }

\* the subjects and predicates the handlers pass to _add_multilingual_property
CodecSubjects == { Term(ONTO, <<"Foo">>), Term(EURIO, <<"hasValue">>), BNode(1) }

CodecPredicates == { SKOS_.prefLabel, RDFS_.comment }

Statements(g, subject, predicate) == { t \in g : t[1] = subject /\ t[2] = predicate }

Expand ==
    /\ op = "__init__"
    /\ \E subject \in CodecSubjects, predicate \in CodecPredicates, d \in LangDicts :
        /\ Statements(graph, subject, predicate) = {}
        /\ Called("_add_multilingual_property",
                  [subject |-> subject, predicate |-> predicate, value |-> PyDict(d)],
                  _add_multilingual_property(Self, subject, predicate, PyDict(d)))
    /\ UNCHANGED calls

\* collect the statements of the expanded subject and predicate, in any order
Collapse ==
    /\ op = "_add_multilingual_property"
    /\ \E scan \in Orders(Statements(graph, arg.subject, arg.predicate)) :
        LET r == create_json_mapping(scan)
        IN  /\ op' = "collapse"
            /\ outcome' = IF r.raised = "none" THEN "ok" ELSE r.raised
            /\ ret' = r.data
            /\ pre' = graph
            /\ UNCHANGED <<ONTO, json_dir, graph, json_file_mapping, bnodes, disk, calls,
                           arg, warned, _paths, _entries>>

NextCodec == Expand \/ Collapse

SpecCodec == InitAnyBase /\ [][NextCodec]_vars

\* a dict {lang: text} as create_json_mapping gives it back
Collected(d) == [i \in 1..Len(d) |-> <<d[i][1], PyStr(d[i][2])>>]

\* two dicts hold the same items
SameMapping(d, e) ==
    /\ Len(d) = Len(e)
    /\ { d[i] : i \in 1..Len(d) } = { e[i] : i \in 1..Len(e) }

LangRank(c) == CHOOSE i \in 1..Len(LangCodes) : LangCodes[i] = c

KeysAscend(d) == \A i, j \in 1..Len(d) : i < j => LangRank(d[i][1]) < LangRank(d[j][1])

\* C5: expanding a mapping M with unique language keys on a subject and
\* predicate that have no statements yet, then collecting the statements of
\* that subject and predicate in any scan order, gives one record, named by
\* the subject's local name, with one field, named by the predicate, whose
\* value is M with its keys in sorted order; nothing is emitted or collected
\* for the empty mapping.
C5_CollapseOfExpand ==
    op = "collapse" =>
        /\ outcome = "ok"
        /\ IF arg.value.v = <<>> THEN ret = <<>>
           ELSE /\ Len(ret) = 1
                /\ ret[1][1] = LocalName(arg.subject.v)
                /\ Len(ret[1][2]) = 1
                /\ ret[1][2][1][1] = translate(LocalName(arg.predicate.v))
                /\ ret[1][2][1][2].t = "dict"
                /\ SameMapping(ret[1][2][1][2].v, Collected(arg.value.v))
                /\ KeysAscend(ret[1][2][1][2].v)

C5_Witness ==
    /\ op = "collapse"
    /\ arg.subject = Term(ONTO, <<"Foo">>)
    /\ arg.value = PyDict(<< <<"fr", <<"a">> >>, <<"de", <<"b">> >>, <<"en", <<"a">> >> >>)
    /\ ret = << <<<<"Foo">>,
                  << <<<<"pref_label">>,
                       PyDict(<< <<"de", PyStr(<<"b">>)>>, <<"en", PyStr(<<"a">>)>>,
                                 <<"fr", PyStr(<<"a">>)>> >>)>> >> >> >>

----------------------------------------------------------------------------
(* The resolver on its own *)

TokenAtoms == {"Foo", ":", "#", "xsd", "XSD", "foo", "http", "//example.org/other"}

\* no two neighbours are both runs of ordinary characters
IsString(s) == \A i \in 1..(Len(s) - 1) : s[i] \in {":", "#"} \/ s[i + 1] \in {":", "#"}

MaxTokenLen == 3

Tokens ==
    { s \in UNION { [1..n -> TokenAtoms] : n \in 1..MaxTokenLen } : IsString(s) }
    \cup { <<"eurio", ":", "Foo">>, <<"EURIO", ":", "Foo">>, <<"exa-atow", ":", "Foo">>,
           <<"foo", ":", "Bar", ":", "Baz">>, <<"_", ":", "b1">>,
           <<"HTTP", ":", "//example.org/other", "#", "Foo">>,
           <<"http", ":", "//example.org/other", "#", "Foo">>,
           <<"https", ":", "//localhost/myontology", "#", "Foo">>,
           <<"https", ":", "Foo">> }

ResolveInputs ==
    { PyStr(s) : s \in Tokens } \cup { URIRef(s) : s \in Tokens } \cup { PyInt(5), PyNone }

\* the namespace argument: left out, or an override
NamespaceArgs == { NoStr, EURIO, <<"http", ":", "//example.org/other", "#">> }

ResolveCall(name, a, r) ==
    /\ op' = name
    /\ arg' = a
    /\ outcome' = IF r.raised = "none" THEN "ok" ELSE r.raised
    /\ warned' = r.warned
    /\ ret' = r.ret
    /\ pre' = graph
    /\ UNCHANGED <<ONTO, json_dir, graph, json_file_mapping, bnodes, disk, calls,
                   _paths, _entries>>

\* the resolver reads the bindings and its arguments only: one call on the
\* constructed object stands for a call at any time
Resolve ==
    /\ op = "__init__"
    /\ \E x \in ResolveInputs, namespace \in NamespaceArgs :
        ResolveCall("_resolve_uri",
                    [uri_or_name |-> x, namespace |-> namespace, first |-> PyNone,
                     token |-> x],
                    _resolve_uri(x, namespace))

\* resolve the absolute form of the reference the last call returned: the
\* reference itself, or its text
ResolveAgain ==
    /\ op = "_resolve_uri"
    /\ outcome = "ok"
    /\ \E x \in {ret, PyStr(ret.v)}, namespace \in NamespaceArgs :
        ResolveCall("resolve_again",
                    [uri_or_name |-> x, namespace |-> namespace, first |-> ret,
                     token |-> arg.uri_or_name],
                    _resolve_uri(x, namespace))

NextResolve == Resolve \/ ResolveAgain

SpecResolve == InitAnyBase /\ [][NextResolve]_vars

\* a token 'prefix:local' whose prefix no binding matches
UnboundPrefixToken(x) ==
    /\ x.t = "str"
    /\ ~StartsWithScheme(x.v)
    /\ Contains(x.v, ":")
    /\ \A b \in namespaces : b[1] # Lower(SubSeq(x.v, 1, FirstIndex(x.v, ":") - 1))

ResolverCalled == op \in {"_resolve_uri", "resolve_again"}

\* C3 as stated: resolving a token whose prefix is not bound never raises,
\* warns, and returns the whole token as a local name in the default
\* namespace, which is the namespace argument when the caller passed one and
\* the ontology's own namespace otherwise.
C3_FallbackInDefaultNamespace ==
    (ResolverCalled /\ UnboundPrefixToken(arg.uri_or_name)) =>
        /\ outcome = "ok"
        /\ warned
        /\ ret = Term(IF arg.namespace # NoStr THEN arg.namespace ELSE ONTO,
                      arg.uri_or_name.v)

\* C3 amended: resolving a token whose prefix is not bound never raises,
\* warns, and returns the whole token as a local name in the ontology's own
\* namespace, whether or not the caller passed a namespace.
C3_FallbackInOntoNamespace ==
    (ResolverCalled /\ UnboundPrefixToken(arg.uri_or_name)) =>
        /\ outcome = "ok"
        /\ warned
        /\ ret = Term(ONTO, arg.uri_or_name.v)

C3_Witness ==
    /\ op = "_resolve_uri"
    /\ arg.uri_or_name = PyStr(<<"foo", ":", "Foo">>)
    /\ arg.namespace = EURIO
    /\ warned
    /\ ret = Term(ONTO, <<"foo", ":", "Foo">>)

\* the tokens C4 speaks of: any str (a local name, a prefixed name, an
\* absolute URI), or a reference that is an absolute http(s) URI
ValidToken(x) == x.t = "str" \/ (x.t = "uri" /\ StartsWithScheme(x.v))

\* C4: for every valid token, resolving the absolute form of the reference
\* the resolver returned for it (the reference or its text, with any
\* namespace argument) succeeds and returns that same reference.  The
\* ontology's base URI is an http(s) URI, as the default and the use case's.
C4_ResolveIdempotent ==
    (op = "resolve_again" /\ ValidToken(arg.token)) =>
        /\ outcome = "ok"
        /\ ret = arg.first

C4_Witness ==
    /\ op = "resolve_again"
    /\ arg.token = PyStr(<<"XSD", ":", "Foo">>)
    /\ arg.uri_or_name = PyStr(XSD \o <<"Foo">>)
    /\ ret = Term(XSD, <<"Foo">>)

----------------------------------------------------------------------------
(* The axiom builders: enumerations, restrictions, cardinalities            *)

ClassArgs(name, parent, one_of, cardinality, restrictions, pref_label, json_path) ==
    [class_name |-> name, parent_class |-> parent, pref_label |-> pref_label,
     comment |-> PyNone, equivalent |-> PyNone, link_html |-> PyNone, one_of |-> one_of,
     cardinality |-> cardinality, restrictions |-> restrictions, json_path |-> json_path]

RestrictionArgs(class_name, property_name, all_values_from, enumeration, comment) ==
    [class_name |-> class_name, property_name |-> property_name,
     all_values_from |-> all_values_from, enumeration |-> enumeration, comment |-> comment]

MaxList == 2

ListsOf(S) == UNION { [1..n -> S] : n \in 1..MaxList }

\* the members of an enumerated class: names, resolved one by one
OneOfLists == { PyList(l) : l \in ListsOf({ PyStr(<<"Foo">>), PyStr(<<"foo", ":", "Bar">>) }) }

\* the values of an enumerated datatype
Enumerations == { PyList(l) : l \in ListsOf({ PyStr(<<"GB">>), PyStr(<<"TB">>) }) }

\* a dict with the keys ks, each with its value in all
Restrict(all, ks) == [k \in ks |-> all[k]]

CardinalityValues ==
    [property |-> PyStr(<<"hasValue">>), on_class |-> PyStr(<<"Bar">>),
     exactly |-> PyInt(3), min |-> PyInt(1), max |-> PyInt(4)]

\* every cardinality_config over the documented keys that names its property,
\* and one that does not
CardinalityConfigs ==
    { PyConfig(Restrict(CardinalityValues, {"property"} \cup ks)) :
        ks \in SUBSET {"on_class", "exactly", "min", "max"} }
    \cup { PyConfig(Restrict(CardinalityValues, {"on_class", "exactly"})) }

RestrictionValues ==
    [property |-> PyStr(<<"hasUnit">>), some_values_from |-> PyStr(<<"Bar">>),
     all_values_from |-> PyStr(<<"xsd", ":", "string">>), has_value |-> PyStr(<<"Baz">>)]

RestrictionConfigs ==
    { PyConfig(Restrict(RestrictionValues, ks)) :
        ks \in { {"property", "some_values_from"}, {"property", "all_values_from"},
                 {"property", "has_value"}, {"property"}, {"has_value"} } }

AxiomClassInputs ==
    { ClassArgs(PyStr(<<"Foo">>), PyNone, l, PyNone, PyNone, PyNone, NoStr) : l \in OneOfLists }
    \cup { ClassArgs(PyStr(<<"Foo">>), PyNone, PyNone, c, PyNone, PyNone, NoStr) :
            c \in CardinalityConfigs }
    \cup { ClassArgs(PyStr(<<"Foo">>), PyNone, PyNone, PyNone, PyList(<<r>>), PyNone, NoStr) :
            r \in RestrictionConfigs }
    \cup { ClassArgs(PyStr(<<"Foo">>), PyStr(<<"Bar">>), l, c, PyList(<<r, r>>),
                     PyNone, NoStr) :
            l \in { PyList(<<PyStr(<<"Foo">>), PyStr(<<"Foo">>)>>) },
            c \in { PyConfig(Restrict(CardinalityValues, {"property", "on_class", "min", "max"})) },
            r \in { PyConfig(Restrict(RestrictionValues, {"property", "has_value"})) } }

AxiomRestrictionInputs ==
    { RestrictionArgs(PyStr(<<"Foo">>), PyStr(<<"hasUnit">>), PyNone, e, PyNone) :
        e \in Enumerations }
    \cup { RestrictionArgs(PyStr(<<"Foo">>), PyStr(<<"hasUnit">>), v, PyNone,
                           PyDict(<< <<"en", <<"a">> >> >>)) :
            v \in { PyNone, PyStr(<<"xsd", ":", "string">>), Term(XSD, <<"string">>) } }

MaxAxiomCalls == 2

BuildClass ==
    /\ calls < MaxAxiomCalls
    /\ calls' = calls + 1
    /\ \E a \in AxiomClassInputs : Called("add_class", a, add_class(Self, a))

BuildRestriction ==
    /\ calls < MaxAxiomCalls
    /\ calls' = calls + 1
    /\ \E a \in AxiomRestrictionInputs :
        Called("add_restriction_to_class", a, add_restriction_to_class(Self, a))

NextAxiom == BuildClass \/ BuildRestriction

SpecAxiom == InitNoFiles /\ [][NextAxiom]_vars

\* the statements the last call added
NewStatements == graph \ pre

Objects(g, subject, predicate) == { t[3] : t \in Statements(g, subject, predicate) }

\* the nodes of g that occur in a statement
Nodes(g) == { t[1] : t \in g } \cup { t[3] : t \in g }

\* the cells met from node along "rest", while each has a single "rest"
RECURSIVE Cells(_, _, _)
Cells(g, node, fuel) ==
    IF node = RDF_.nil \/ fuel = 0 \/ Cardinality(Objects(g, node, RDF_.rest)) # 1
    THEN IF node = RDF_.nil THEN <<>> ELSE <<node>>
    ELSE <<node>> \o Cells(g, CHOOSE n \in Objects(g, node, RDF_.rest) : TRUE, fuel - 1)

\* a call that built an ordered list, and the values it was given
BuiltOneOf == op = "add_class" /\ Truthy(arg.one_of)
BuiltEnumeration == op = "add_restriction_to_class" /\ Truthy(arg.enumeration)

ListValues ==
    IF BuiltOneOf THEN ResolveAll(arg.one_of.v)
    ELSE [i \in 1..Len(arg.enumeration.v) |->
            Literal(arg.enumeration.v[i].v, NoLang, XSD_.string)]

\* the head of the list: what the new oneOf statement points at
ListHead == CHOOSE h \in { t[3] : t \in { u \in NewStatements : u[2] = OWL_.oneOf } } : TRUE

ListCells == Cells(graph, ListHead, Len(ListValues) + 2)

CellSet == { ListCells[i] : i \in 1..Len(ListCells) }

\* C6: a call that builds an ordered list from N >= 1 values (the members of
\* add_class's one_of, the values of add_restriction_to_class's enumeration,
\* repeated values included) adds N "first" and N "rest" statements on N
\* anonymous nodes that were not in the graph before: cell i holds value i
\* and points to cell i+1, the last one to nil.
C6_OrderedList ==
    (BuiltOneOf \/ BuiltEnumeration) =>
        LET N == Len(ListValues)
        IN  /\ Len(ListCells) = N
            /\ Cardinality(CellSet) = N
            /\ \A c \in CellSet : IsBNode(c) /\ c \notin Nodes(pre)
            /\ \A i \in 1..N :
                /\ Objects(graph, ListCells[i], RDF_.first) = {ListValues[i]}
                /\ Objects(graph, ListCells[i], RDF_.rest) =
                      {IF i = N THEN RDF_.nil ELSE ListCells[i + 1]}
            /\ Cardinality({ t \in NewStatements : t[2] = RDF_.first /\ t[1] \in CellSet }) = N
            /\ Cardinality({ t \in NewStatements : t[2] = RDF_.rest /\ t[1] \in CellSet }) = N
            /\ Cardinality({ t \in NewStatements :
                               t[2] = RDF_.rest /\ t[1] \in CellSet /\ t[3] = RDF_.nil }) = 1
            /\ ~Truthy(Get(arg, "cardinality")) =>
                /\ Cardinality({ t \in NewStatements : t[2] = RDF_.first }) = N
                /\ Cardinality({ t \in NewStatements : t[2] = RDF_.rest }) = N

C6_Witness ==
    /\ BuiltOneOf
    /\ arg.one_of.v = <<PyStr(<<"Foo">>), PyStr(<<"Foo">>)>>
    /\ ~Truthy(arg.cardinality)
    /\ bnodes > 3
    /\ Len(ListCells) = 2
    /\ Cardinality({ t \in NewStatements : t[2] = RDF_.first }) = 2

C6_WitnessEnumeration ==
    /\ BuiltEnumeration
    /\ Len(arg.enumeration.v) = 2
    /\ Len(ListCells) = 2

\* a call of add_class that ran the cardinality routine past its property lookup
CardinalityCall ==
    /\ op = "add_class"
    /\ Truthy(arg.cardinality)
    /\ "property" \in DOMAIN arg.cardinality.v
    /\ outcome = "ok"

Config == arg.cardinality.v

\* the restriction node the routine created: the new Restriction that is a
\* member of the new intersection list
CardinalityNode ==
    CHOOSE n \in { t[1] : t \in { u \in NewStatements :
                                    u[2] = RDF_.type /\ u[3] = OWL_.Restriction } } :
        \E t \in NewStatements : t[2] = RDF_.first /\ t[3] = n

HasNumber(cfg) == DOMAIN cfg \cap {"exactly", "min", "max"} # {}

C7_WitnessMaxOnly ==
    /\ CardinalityCall
    /\ DOMAIN Config = {"property", "on_class", "max"}
    /\ Cardinality(Statements(graph, CardinalityNode, OWL_.onClass)) = 1

CardinalityPredicateSet ==
    { OWL_.cardinality, OWL_.minCardinality, OWL_.maxCardinality,
      OWL_.qualifiedCardinality, OWL_.minQualifiedCardinality, OWL_.maxQualifiedCardinality }

NonNegativeInteger(n) == Val("lit", n.v, NoLang, XSD \o <<"nonNegativeInteger">>)

\* the table of section 4.3: the <<predicate, value>> pairs of a spec
TableOf(cfg) ==
    LET qualified == Truthy(Get(cfg, "on_class"))
    IN  IF "exactly" \in DOMAIN cfg
        THEN { <<IF qualified THEN OWL_.qualifiedCardinality ELSE OWL_.cardinality,
                 NonNegativeInteger(cfg["exactly"])>> }
        ELSE { <<IF qualified THEN OWL_.minQualifiedCardinality ELSE OWL_.minCardinality,
                 NonNegativeInteger(cfg["min"])>> : k \in DOMAIN cfg \cap {"min"} }
             \cup
             { <<IF qualified THEN OWL_.maxQualifiedCardinality ELSE OWL_.maxCardinality,
                 NonNegativeInteger(cfg["max"])>> : k \in DOMAIN cfg \cap {"max"} }

\* C8: the cardinality statements on the restriction node are exactly those
\* of the table: (qualified) cardinality for exactly, (qualified) min and max
\* cardinality for min and max, qualified if and only if on_class is given,
\* each with a nonNegativeInteger literal.
C8_PredicateTable ==
    CardinalityCall =>
        { <<t[2], t[3]>> : t \in { u \in graph : u[1] = CardinalityNode
                                                  /\ u[2] \in CardinalityPredicateSet } }
            = TableOf(Config)

C8_Witness ==
    /\ CardinalityCall
    /\ DOMAIN Config = {"property", "on_class", "exactly"}
    /\ <<CardinalityNode, OWL_.qualifiedCardinality, NonNegativeInteger(PyInt(3))>> \in graph

\* C9 as stated: a cardinality spec that gives exactly together with min or
\* max is rejected with an error and the call leaves the graph as it was.
C9_ExactlyWithMinMaxRejected ==
    (/\ op = "add_class"
     /\ Truthy(arg.cardinality)
     /\ "exactly" \in DOMAIN Config
     /\ DOMAIN Config \cap {"min", "max"} # {})
        => (outcome # "ok" /\ graph = pre)

----------------------------------------------------------------------------
\* the nodes typed Restriction
RestrictionNodes(g) ==
    { t[1] : t \in { u \in g : u[2] = RDF_.type /\ u[3] = OWL_.Restriction } }

\* the kinds of value constraint a node carries; allValuesFrom a node typed
\* Datatype is an enumeration
ConstraintKinds(g, n) ==
    { "someValuesFrom" : t \in Statements(g, n, OWL_.someValuesFrom) }
    \cup { IF <<t[3], RDF_.type, RDFS_.Datatype>> \in g THEN "enumeration"
           ELSE "allValuesFrom" : t \in Statements(g, n, OWL_.allValuesFrom) }
    \cup { "hasValue" : t \in Statements(g, n, OWL_.hasValue) }
    \cup { "cardinality" : t \in { u \in g : u[1] = n /\ u[2] \in CardinalityPredicateSet } }

\* C11 as stated: every node typed Restriction carries exactly one onProperty
\* statement and exactly one kind of value constraint (someValuesFrom,
\* allValuesFrom, hasValue, enumeration, cardinality).
C11_RestrictionWellFormed ==
    \A n \in RestrictionNodes(graph) :
        /\ Cardinality(Statements(graph, n, OWL_.onProperty)) = 1
        /\ Cardinality(ConstraintKinds(graph, n)) = 1

\* no node typed Restriction carries two kinds of value constraint
C11_AtMostOneKind ==
    \A n \in RestrictionNodes(graph) : Cardinality(ConstraintKinds(graph, n)) <= 1

(* The loaders *)

\* record.get(k)
RecGet(record, k) == IF HasKey(record, k) THEN ItemOf(record, k) ELSE PyNone

\* a {lang: text} dict read from JSON, as the handlers take it
Loaded(v) ==
    IF v.t = "dict" THEN PyDict([i \in 1..Len(v.v) |-> <<v.v[i][1], v.v[i][2].v>>]) ELSE v

\* a path argument read from JSON; "" when there is none
PathOf(v) == IF v.t = "str" THEN v.v ELSE NoStr

\* self.json_file_mapping[identifier] = path
SetFile(self, identifier, path) ==
    [self EXCEPT !.json_file_mapping =
        [k \in DOMAIN @ \cup {identifier} |-> IF k = identifier THEN path ELSE @[k]]]

\* open(path) and json.load: the exception, or the items read
ReadJson(path) ==
    IF ~Exists(disk, path) THEN [raised |-> "FileNotFoundError", items |-> <<>>]
    ELSE IF disk[path].kind # "json" THEN [raised |-> "JSONDecodeError", items |-> <<>>]
    ELSE [raised |-> "none", items |-> disk[path].items]

\* _load_json, lines 147-152
_load_json(filename) ==
    ReadJson(IF json_dir # NoStr THEN PathJoin(json_dir, filename) ELSE filename)

\* the loop of load_and_add_classes, lines 383-396
RECURSIVE EachClass(_, _, _, _)
EachClass(self, json_file, default_parent_class, classes_data) ==
    IF classes_data = <<>> \/ ~Ok(self) THEN self
    ELSE LET class_info == Head(classes_data)
         IN  IF \E k \in {<<"id">>, <<"pref_label">>, <<"comment">>} : ~HasKey(class_info, k)
             THEN Raise(self, "KeyError")
             ELSE
             LET Registered(s) ==
                    IF Ok(s) THEN SetFile(s, ItemOf(class_info, <<"id">>), json_file) ELSE s
                 added == add_class(self,
                        [class_name |-> ItemOf(class_info, <<"id">>),
                         pref_label |-> Loaded(ItemOf(class_info, <<"pref_label">>)),
                         parent_class |-> IF HasKey(class_info, <<"parent_class">>)
                                          THEN ItemOf(class_info, <<"parent_class">>)
                                          ELSE default_parent_class,
                         equivalent |-> RecGet(class_info, <<"equivalent">>),
                         link_html |-> RecGet(class_info, <<"link_html">>),
                         json_path |-> PathOf(RecGet(class_info, <<"json_path">>)),
                         restrictions |-> RecGet(class_info, <<"restrictions">>),
                         cardinality |-> RecGet(class_info, <<"cardinality">>),
                         one_of |-> RecGet(class_info, <<"one_of">>),
                         comment |-> Loaded(ItemOf(class_info, <<"comment">>))])
             IN  EachClass(Registered(added), json_file, default_parent_class,
                           Tail(classes_data))

load_and_add_classes(self, json_file, default_parent_class) ==
    LET f == ReadJson(json_file)
    IN  IF f.raised # "none" THEN Raise(self, f.raised)
        ELSE EachClass(self, json_file, default_parent_class, f.items)

\* the loop of load_and_add_properties, lines 495-503
RECURSIVE EachProperty(_, _)
EachProperty(self, properties) ==
    IF properties = <<>> \/ ~Ok(self) THEN self
    ELSE LET prop == Head(properties)
         IN  EachProperty(
                add_property(self,
                    [property_name |-> RecGet(prop, <<"id">>),
                     property_type |-> IF HasKey(prop, <<"property_type">>)
                                       THEN ItemOf(prop, <<"property_type">>).v[1]
                                       ELSE "ObjectProperty",
                     domain |-> RecGet(prop, <<"domain">>),
                     range_ |-> RecGet(prop, <<"range">>),
                     comment |-> Loaded(RecGet(prop, <<"comment">>)),
                     pref_label |-> Loaded(RecGet(prop, <<"pref_label">>)),
                     json_path |-> NoStr]),
                Tail(properties))

load_and_add_properties(self, json_file) ==
    LET f == ReadJson(json_file)
    IN  IF f.raised # "none" THEN Raise(self, f.raised)
        ELSE EachProperty(self, f.items)

\* restriction["all_values_from"].split(":")[-1]
AfterColon(s) == IF Contains(s, ":") THEN SubSeq(s, LastIndex(s, ":") + 1, Len(s)) ELSE s

\* the inner loop of load_restrictions, lines 594-609
RECURSIVE EachRestriction(_, _, _)
EachRestriction(self, class_name, restrictions) ==
    IF restrictions = <<>> \/ ~Ok(self) THEN self
    ELSE LET restriction == Head(restrictions)
         IN  IF ~HasKey(restriction, <<"property_name">>) THEN Raise(self, "KeyError")
             ELSE EachRestriction(
                    add_restriction_to_class(self,
                        [class_name |-> class_name,
                         property_name |-> ItemOf(restriction, <<"property_name">>),
                         comment |-> Loaded(RecGet(restriction, <<"comment">>)),
                         enumeration |-> RecGet(restriction, <<"enumeration">>),
                         all_values_from |->
                            IF HasKey(restriction, <<"all_values_from">>)
                            THEN Term(XSD,
                                   AfterColon(ItemOf(restriction, <<"all_values_from">>).v))
                            ELSE PyNone]),
                    class_name, Tail(restrictions))

RECURSIVE EachEntry(_, _)
EachEntry(self, restrictions_data) ==
    IF restrictions_data = <<>> \/ ~Ok(self) THEN self
    ELSE LET entry == Head(restrictions_data)
         IN  IF \E k \in {<<"class_name">>, <<"restrictions">>} : ~HasKey(entry, k)
             THEN Raise(self, "KeyError")
             ELSE EachEntry(
                    EachRestriction(self, ItemOf(entry, <<"class_name">>),
                                        ItemOf(entry, <<"restrictions">>).v),
                    Tail(restrictions_data))

\* a file that is not there is skipped with a message
load_restrictions(self, json_file) ==
    LET f == _load_json(json_file)
    IN  IF f.raised = "FileNotFoundError" THEN self
        ELSE IF f.raised # "none" THEN Raise(self, f.raised)
        ELSE EachEntry(self, f.items)

\* the loop of load_instances, lines 705-713
RECURSIVE EachInstance(_, _)
EachInstance(self, instances_data) ==
    IF instances_data = <<>> \/ ~Ok(self) THEN self
    ELSE LET inst == Head(instances_data)
         IN  IF \E k \in {<<"id">>, <<"class_type">>} : ~HasKey(inst, k)
             THEN Raise(self, "KeyError")
             ELSE EachInstance(
                    add_instance(self,
                        [instance_name |-> ItemOf(inst, <<"id">>),
                         class_type |-> ItemOf(inst, <<"class_type">>),
                         pref_label |-> Loaded(RecGet(inst, <<"pref_label">>)),
                         comment |-> Loaded(RecGet(inst, <<"comment">>)),
                         properties |-> RecGet(inst, <<"properties">>),
                         json_path |-> PathOf(RecGet(inst, <<"json_path">>))]),
                    Tail(instances_data))

load_instances(self, json_file) ==
    LET f == _load_json(json_file)
    IN  IF f.raised = "FileNotFoundError" THEN self
        ELSE IF f.raised # "none" THEN Raise(self, f.raised)
        ELSE EachInstance(self, f.items)

----------------------------------------------------------------------------
(* dump_to_json and serialize *)

\* the key file_grouping files the records without a file under: None
NoFile == NoStr

\* self.json_file_mapping.get(id, None), id a plain str
FileOf(self, id) ==
    IF PyStr(id) \in DOMAIN self.json_file_mapping
    THEN self.json_file_mapping[PyStr(id)]
    ELSE NoFile

\* line 932
key_order == << <<"parent_class">>, <<"pref_label">>, <<"comment">> >>

\* tmp.update(data)
RECURSIVE Update(_, _)
Update(tmp, items) ==
    IF items = <<>> THEN tmp
    ELSE Update(SetItem(tmp, Head(items)[1], Head(items)[2]), Tail(items))

\* lines 943-954: id first, then the keys of key_order, then the others
Record(id, data) ==
    LET front == SelectSeq(key_order, LAMBDA k : HasKey(data, k))
        others == SelectSeq(data, LAMBDA kv : \A i \in 1..Len(key_order) : kv[1] # key_order[i])
    IN  Update(<< << <<"id">>, PyStr(id) >> >>
                  \o [i \in 1..Len(front) |-> <<front[i], ItemOf(data, front[i])>>],
               others)

\* lines 934-956
RECURSIVE Group(_, _, _)
Group(self, file_grouping, mapping) ==
    IF mapping = <<>> THEN file_grouping
    ELSE LET id == Head(mapping)[1]
             file == FileOf(self, id)
             entries == IF HasKey(file_grouping, file) THEN ItemOf(file_grouping, file)
                        ELSE <<>>
         IN  Group(self,
                   SetItem(file_grouping, file,
                           SetItem(entries, id, Record(id, Head(mapping)[2]))),
                   Tail(mapping))

\* variant: the records are written in the order the mapping holds them
WriteEntriesUnordered(acc, file, entries) ==
    [acc EXCEPT !.disk = WriteTo(@, file, JsonFile([i \in 1..Len(entries) |-> entries[i][2]]))]

\* variant: the file is opened for writing before its ids are read
WriteEntriesTruncating(acc, file, entries) ==
    [disk |-> WriteTo(acc.disk, file, JsonFile(<<>>)),
     raised |-> IF Exists(acc.disk, file) THEN "JSONDecodeError" ELSE "none"]

\* lines 963-985 for one file, on acc = [disk, raised]
WriteEntries(acc, file, entries) ==
    IF Exists(acc.disk, file) /\ acc.disk[file].kind # "json"
    THEN [acc EXCEPT !.raised = "JSONDecodeError"]
    ELSE
    LET existing == IF Exists(acc.disk, file) THEN acc.disk[file].items ELSE <<>>
    IN  IF \E i \in 1..Len(existing) : ~HasKey(existing[i], <<"id">>)
        THEN [acc EXCEPT !.raised = "KeyError"]
        ELSE
        LET existing_id_ordering == [i \in 1..Len(existing) |-> ItemOf(existing[i], <<"id">>).v]
            popped(id) == \E i \in 1..Len(existing_id_ordering) : existing_id_ordering[i] = id
        IN  IF \E i \in 1..Len(existing_id_ordering) :
                  \/ ~HasKey(entries, existing_id_ordering[i])
                  \/ \E j \in 1..(i - 1) : existing_id_ordering[j] = existing_id_ordering[i]
            THEN [acc EXCEPT !.raised = "KeyError"]
            ELSE
            LET left == SelectSeq(entries, LAMBDA e : ~popped(e[1]))
                output == [i \in 1..Len(existing_id_ordering) |->
                              ItemOf(entries, existing_id_ordering[i])]
                          \o [i \in 1..Len(left) |-> left[i][2]]
            IN  [acc EXCEPT !.disk = WriteTo(@, file, JsonFile(output))]

\* lines 959-985
RECURSIVE WriteFiles(_, _)
WriteFiles(acc, file_grouping) ==
    IF file_grouping = <<>> \/ acc.raised # "none" THEN acc
    ELSE WriteFiles(
            IF Head(file_grouping)[1] = NoFile THEN acc
            ELSE WriteEntries(acc, Head(file_grouping)[1], Head(file_grouping)[2]),
            Tail(file_grouping))

\* dump_to_json when the graph is scanned in the order scan; the result is
\* [disk, raised, warning]: the files, the exception, and the ids the final
\* warning lists (lines 988-992), none when it is not printed
dump_to_json(self, scan) ==
    LET m == create_json_mapping(scan)
        Finish(file_grouping, written) ==
            IF written.raised # "none"
            THEN [disk |-> written.disk, raised |-> written.raised, warning |-> <<>>]
            ELSE IF ~HasKey(file_grouping, NoFile)
            THEN [disk |-> written.disk, raised |-> "KeyError", warning |-> <<>>]
            ELSE [disk |-> written.disk, raised |-> "none",
                  warning |-> LET unwritten == ItemOf(file_grouping, NoFile)
                              IN  [i \in 1..Len(unwritten) |-> PyStr(unwritten[i][1])]]
        Write(file_grouping) ==
            Finish(file_grouping,
                   WriteFiles([disk |-> disk, raised |-> "none"], file_grouping))
    IN  IF m.raised # "none" THEN [disk |-> disk, raised |-> m.raised, warning |-> <<>>]
        ELSE Write(Group(self, <<>>, m.data))

\* serialize, lines 760-764: the files after it, and what it returns
serialize(self, format, destination) ==
    IF destination # NoStr
    THEN [disk |-> WriteTo(disk, destination, RdfFile(format, self.graph)),
          ret |-> PyStr(<<"Ontology saved to ">> \o destination)]
    ELSE [disk |-> disk, ret |-> RdfFile(format, self.graph)]

\* some order of the statements of S
RECURSIVE SomeOrder(_)
SomeOrder(S) ==
    IF S = {} THEN <<>>
    ELSE LET x == CHOOSE x \in S : TRUE IN <<x>> \o SomeOrder(S \ {x})

Reverse(q) == [i \in 1..Len(q) |-> q[Len(q) + 1 - i]]

\* the orders "for item in self.graph" is taken to yield the statements in:
\* one order and its reverse, so that any two statements come in either order
ScanOrders(g) == { SomeOrder(g), Reverse(SomeOrder(g)) }

----------------------------------------------------------------------------
(* The public operations, called in any order on one ontology *)

MaxCalls == 2

TripleInputs ==
    { <<PyStr(<<"Foo">>), RDFS_.subClassOf, PyStr(<<"Bar">>)>>,
      <<Term(ONTO, <<"Foo">>), SKOS_.prefLabel, Literal(<<"a">>, "en", NoStr)>>,
      <<PyStr(<<"eurio", ":", "Foo">>), PyStr(<<"rdf", ":", "type">>),
        PyStr(<<"owl", ":", "Class">>)>>,
      <<PyStr(<<"hasValue">>), PyStr(<<"foo", ":", "bar">>), BNodeId(<<"b1">>)>>,
      <<PyStr(<<"Foo">>), RDFS_.comment, PyInt(3)>> }

ClassInputs ==
    { ClassArgs(PyStr(<<"Foo">>), PyNone, PyNone, PyNone, PyNone, x[1], x[2]) :
        x \in { <<PyNone, NoStr>>,
                <<PyDict(<< <<"en", <<"a">> >> >>), <<"classes.json">> >>,
                <<PyDict(<< <<"fr", <<"b">> >>, <<"en", <<"b">> >> >>), NoStr>>,
                <<PyStr(<<"a">>), FILES_DIR \o <<"new.json">> >> } }
    \cup { ClassArgs(PyStr(<<"eurio", ":", "Foo">>), PyStr(<<"Bar">>), PyNone, PyNone, PyNone,
                     PyStr(<<"a">>), FILES_DIR \o <<"new.json">>) }
    \cup { ClassArgs(PyStr(<<"Bar">>), PyNone, x[1], x[2], x[3], PyNone, NoStr) :
            x \in { <<PyList(<<PyStr(<<"Foo">>), PyStr(<<"Baz">>)>>), PyNone, PyNone>>,
                    <<PyNone, PyConfig(Restrict(CardinalityValues,
                                                {"property", "exactly", "min"})), PyNone>>,
                    <<PyNone, PyNone,
                      PyList(<<PyConfig(Restrict(RestrictionValues, {"has_value"}))>>)>> } }

PropertyInputs ==
    { PropertyArgs(PyStr(<<"hasValue">>), type, PyNone, PyNone, PyNone,
                   PyDict(<< <<"en", <<"b">> >> >>), NoStr) :
        type \in { "ObjectProperty", "FunctionalProperty" } }
    \cup { PropertyArgs(PyStr(<<"hasJob">>), type, PyStr(<<"Foo">>),
                        PyStr(<<"xsd", ":", "string">>), PyNone, PyNone,
                        <<"properties.json">>) :
            type \in { "AnnotationProperty", "FunctionalProperty" } }
    \cup { PropertyArgs(PyStr(<<"hasJob">>), "ObjectProperty",
                        PyList(<<PyStr(<<"Foo">>), PyStr(<<"Bar">>)>>),
                        Term(XSD, <<"string">>), PyStr(<<"a">>), PyNone, NoStr) }

InstanceArgs(name, class_type, pref_label, properties, json_path) ==
    [instance_name |-> name, class_type |-> class_type, pref_label |-> pref_label,
     comment |-> PyNone, properties |-> properties, json_path |-> json_path]

InstanceValues ==
    { PyNone,
      PyDict(<< <<PyStr(<<"hasValue">>), PyInt(3)>>, <<PyStr(<<"hasUnit">>), PyStr(<<"a">>)>> >>),
      PyDict(<< <<PyStr(<<"hasJob">>),
                  PyList(<<PyStr(<<"_", ":", "b1">>), PyStr(<<"eurio", ":", "Job">>),
                           PyStr(<<"http", ":", "//example.org/x">>), PyBool(TRUE)>>)>> >>),
      PyDict(<< <<PyStr(<<"hasUnit">>),
                  PyList(<<Term(ONTO, <<"GB">>), Literal(<<"a">>, "en", NoStr),
                           BNodeId(<<"b1">>)>>)>> >>) }

InstanceInputs ==
    { InstanceArgs(PyStr(<<"job1">>), PyStr(<<"Job">>), PyNone, v, NoStr) :
        v \in InstanceValues }
    \cup { InstanceArgs(PyStr(<<"Foo">>), PyList(<<PyStr(<<"Job">>), PyStr(<<"Foo">>)>>),
                        PyDict(<< <<"en", <<"a">> >> >>), PyNone, <<"instances.json">>) }
    \cup { InstanceArgs(PyStr(<<"job1">>), PyStr(<<"Job">>),
                        PyDict(<< <<"en", <<"a">> >> >>),
                        PyDict(<< <<PyStr(<<"skos", ":", "prefLabel">>),
                                    PyStr(<<"Foo">>)>> >>), NoStr) }

\* a file of classes, one with a record short of a key, one json.load fails
\* on, and one that is not there, each with the default parent it is loaded with
ClassFiles ==
    { <<FILES_DIR \o <<"classes.json">>, PyNone>>,
      <<FILES_DIR \o <<"classes.json">>, PyStr(<<"Job">>)>>,
      <<FILES_DIR \o <<"short.json">>, PyNone>>,
      <<FILES_DIR \o <<"broken.json">>, PyNone>>,
      <<FILES_DIR \o <<"new.json">>, PyNone>> }

Destinations == { NoStr, <<"out.ttl">>, FILES_DIR \o <<"classes.json">> }

Public == calls < MaxCalls /\ calls' = calls + 1

AddTriple ==
    /\ Public
    /\ \E t \in TripleInputs :
        Called("add_triple", [subject |-> t[1], predicate |-> t[2], obj |-> t[3]],
               add_triple(Self, t[1], t[2], t[3]))

AddClass == Public /\ \E a \in ClassInputs : Called("add_class", a, add_class(Self, a))

AddProperty ==
    Public /\ \E a \in PropertyInputs : Called("add_property", a, add_property(Self, a))

AddInstance ==
    Public /\ \E a \in InstanceInputs : Called("add_instance", a, add_instance(Self, a))

AddRestrictionToClass ==
    /\ Public
    /\ \E a \in AxiomRestrictionInputs :
        Called("add_restriction_to_class", a, add_restriction_to_class(Self, a))

LoadAndAddClasses ==
    /\ Public
    /\ \E x \in ClassFiles :
        Called("load_and_add_classes", [json_file |-> x[1], default_parent_class |-> x[2]],
               load_and_add_classes(Self, x[1], x[2]))

LoadAndAddProperties ==
    /\ Public
    /\ \E json_file \in { FILES_DIR \o <<"properties.json">>, FILES_DIR \o <<"broken.json">>,
                          <<"properties.json">> } :
        Called("load_and_add_properties", [json_file |-> json_file],
               load_and_add_properties(Self, json_file))

LoadRestrictions ==
    /\ Public
    /\ \E json_file \in { <<"restrictions.json">>, FILES_DIR \o <<"restrictions.json">>,
                          <<"broken.json">> } :
        Called("load_restrictions", [json_file |-> json_file],
               load_restrictions(Self, json_file))

LoadInstances ==
    /\ Public
    /\ \E json_file \in { <<"instances.json">>, FILES_DIR \o <<"instances.json">>,
                          <<"broken.json">> } :
        Called("load_instances", [json_file |-> json_file], load_instances(Self, json_file))

CreateJsonMapping ==
    /\ Public
    /\ \E scan \in ScanOrders(graph) :
        LET m == create_json_mapping(scan)
        IN  Returned("create_json_mapping", PyNone, Raise(Self, m.raised), disk,
                     m.data)

DumpToJson ==
    /\ Public
    /\ \E scan \in ScanOrders(graph) :
        LET r == dump_to_json(Self, scan)
        IN  Returned("dump_to_json", PyNone, Raise(Self, r.raised), r.disk,
                     PyList(r.warning))

Serialize ==
    /\ Public
    /\ \E format \in { "turtle" }, destination \in Destinations :
        LET r == serialize(Self, format, destination)
        IN  Returned("serialize", [format |-> format, destination |-> destination],
                     Self, r.disk, r.ret)

Next ==
    \/ AddTriple
    \/ AddClass
    \/ AddProperty
    \/ AddInstance
    \/ AddRestrictionToClass
    \/ LoadAndAddClasses
    \/ LoadAndAddProperties
    \/ LoadRestrictions
    \/ LoadInstances
    \/ CreateJsonMapping
    \/ DumpToJson
    \/ Serialize

Spec == Init /\ [][Next]_vars

\* the identifier an add-operation was called with
AddOps == {"add_class", "add_property", "add_instance"}

Identifier ==
    CASE op = "add_class" -> arg.class_name
      [] op = "add_property" -> arg.property_name
      [] op = "add_instance" -> arg.instance_name

\* the identifier was the subject of a statement before the call
KnownBefore(x) == \E t \in pre : t[1] = Resolved(x)

\* C1 as stated: add_class, add_property or add_instance called with an
\* identifier that is already in the graph (the operations take no force
\* argument) fails, instead of returning normally.
C1_DuplicateIdentifierRejected ==
    (op \in AddOps /\ KnownBefore(Identifier)) => outcome # "ok"

\* C2: no step of a public operation removes a statement: the graph after
\* the step contains the graph before it.
C2_AppendOnly == [][graph \subseteq graph']_vars

C2_Witness ==
    /\ calls = MaxCalls
    /\ op = "add_property"
    /\ arg.property_name = PyStr(<<"hasValue">>)
    /\ outcome = "ok"
    /\ pre \subseteq graph
    /\ \E t \in pre, u \in graph \ pre : t[1] = u[1] /\ t[2] = u[2]

C2_WitnessDump ==
    /\ calls = MaxCalls
    /\ op = "dump_to_json"
    /\ disk # Disk0
    /\ graph = pre

\* C10: add_property with a property_type outside ObjectProperty,
\* DatatypeProperty, AnnotationProperty raises ValueError and the graph holds
\* the statements it held before the call, no more and no fewer.
C10_InvalidKindRejected ==
    (op = "add_property" /\ arg.property_type \notin property_types)
        => (outcome = "ValueError" /\ graph = pre)

C10_Witness ==
    /\ op = "add_property"
    /\ arg.property_type = "FunctionalProperty"
    /\ calls = MaxCalls
    /\ outcome = "ValueError"
    /\ graph = pre
    /\ graph # _init_basic_structure(New).graph

\* the term the value-typing policy stores a property value as; the policy
\* of the claim does not cover a str with a colon that is no URI
StoredAs(value) ==
    CASE value.t \in {"uri", "lit", "bnode"} -> {value}
      [] value.t = "str" /\ StartsWithScheme(value.v) -> {URIRef(value.v)}
      [] value.t = "str" /\ StartsWithBlank(value.v) ->
            {BNodeId(SubSeq(value.v, 3, Len(value.v)))}
      [] value.t \in {"int", "bool"} -> {PyLiteral(value)}
      [] value.t = "str" /\ ~Contains(value.v, ":") -> {Literal(value.v, NoLang, NoStr)}
      [] OTHER -> {}

\* the <<property name, value>> pairs of an add_instance call
PropertyValues ==
    UNION { { <<arg.properties.v[i][1], v>> :
                v \in LET values == arg.properties.v[i][2]
                      IN  IF values.t = "list"
                          THEN { values.v[j] : j \in 1..Len(values.v) }
                          ELSE {values} } :
            i \in 1..Len(arg.properties.v) }

InstanceCall == op = "add_instance" /\ outcome = "ok" /\ Truthy(arg.properties)

\* C12 as stated: add_instance stores each property value by the value-typing
\* policy: a typed reference, literal or anonymous node unchanged, an
\* http(s) string as a reference, a "_:id" string as the anonymous node id, a
\* number or boolean as a typed literal, any other string without a colon as
\* a string literal.
C12_ValueTypingPolicy ==
    InstanceCall =>
        \A pv \in PropertyValues : \A term \in StoredAs(pv[2]) :
            <<Resolved(arg.instance_name), Resolved(pv[1]), term>> \in graph

\* the part of the policy that holds: what is stored for a reference or an
\* http(s) string is that reference
C12_ReferencesStored ==
    InstanceCall =>
        \A pv \in PropertyValues :
            (IsURIRef(pv[2]) \/ (pv[2].t = "str" /\ StartsWithScheme(pv[2].v))) =>
                <<Resolved(arg.instance_name), Resolved(pv[1]), URIRef(pv[2].v)>> \in graph

----------------------------------------------------------------------------
(* The write-back on its own: classes are loaded from files and added with *)
(* and without a source file, and the graph is collected and dumped         *)

MaxDumpCalls == 3

\* CreateOnto() where the files directory exists
InitDump == Constructed({DEFAULT_BASE_URI}, {FILES_DIR})

\* a class new to a file that holds others, one with a parent, one named by
\* a prefixed name, one with no statement but its type, two with no file, one
\* filed under a file that is no JSON, one under a file whose records have no
\* id, and one with a restriction and a cardinality
DumpClassInputs ==
    { ClassArgs(PyStr(<<"D">>), PyNone, PyNone, PyNone, PyNone,
                PyDict(<< <<"en", <<"a">> >> >>), <<"classes.json">>),
      ClassArgs(PyStr(<<"Foo">>), PyStr(<<"Bar">>), PyNone, PyNone, PyNone,
                PyDict(<< <<"en", <<"a">> >> >>), <<"new.json">>),
      ClassArgs(PyStr(<<"eurio", ":", "Job">>), PyNone, PyNone, PyNone, PyNone,
                PyDict(<< <<"en", <<"a">> >> >>), <<"new.json">>),
      ClassArgs(PyStr(<<"Baz">>), PyNone, PyNone, PyNone, PyNone, PyNone, <<"new.json">>),
      ClassArgs(PyStr(<<"Qux">>), PyNone, PyNone, PyNone, PyNone,
                PyDict(<< <<"en", <<"a">> >> >>), NoStr),
      ClassArgs(PyStr(<<"Bare">>), PyNone, PyNone, PyNone, PyNone, PyNone, NoStr),
      ClassArgs(PyStr(<<"E">>), PyNone, PyNone, PyNone, PyNone,
                PyDict(<< <<"en", <<"a">> >> >>), <<"broken.json">>),
      ClassArgs(PyStr(<<"F">>), PyNone, PyNone, PyNone, PyNone,
                PyDict(<< <<"en", <<"a">> >> >>), <<"restrictions.json">>),
      ClassArgs(PyStr(<<"Unit">>), PyNone, PyNone,
                PyConfig(Restrict(CardinalityValues, {"property", "exactly"})),
                PyList(<<PyConfig(Restrict(RestrictionValues, {"property", "has_value"}))>>),
                PyDict(<< <<"en", <<"a">> >> >>), <<"new.json">>) }

DumpClassFiles ==
    { FILES_DIR \o <<f>> :
        f \in {"classes.json", "short.json", "dup.json", "prefixed.json"} }

\* the two built-in properties, added again with a source file
DumpPropertyInputs ==
    { PropertyArgs(PyStr(<<name>>), "DatatypeProperty", PyNone, PyNone, PyNone, PyNone,
                   <<"vocab.json">>) : name \in {"hasValue", "hasUnit"} }

DumpCall == calls < MaxDumpCalls /\ calls' = calls + 1

AddClassWithFile ==
    DumpCall /\ \E a \in DumpClassInputs : Called("add_class", a, add_class(Self, a))

AddPropertyWithFile ==
    DumpCall /\ \E a \in DumpPropertyInputs :
        Called("add_property", a, add_property(Self, a))

LoadClassFile ==
    /\ DumpCall
    /\ \E json_file \in DumpClassFiles :
        Called("load_and_add_classes",
               [json_file |-> json_file, default_parent_class |-> PyNone],
               load_and_add_classes(Self, json_file, PyNone))

Collect ==
    /\ DumpCall
    /\ \E scan \in ScanOrders(graph) :
        LET m == create_json_mapping(scan)
        IN  Returned("create_json_mapping", PyNone, Raise(Self, m.raised), disk, m.data)

Dump ==
    /\ DumpCall
    /\ \E scan \in ScanOrders(graph) :
        LET r == dump_to_json(Self, scan)
        IN  Returned("dump_to_json", PyNone, Raise(Self, r.raised), r.disk,
                     PyList(r.warning))

NextDump == AddClassWithFile \/ AddPropertyWithFile \/ LoadClassFile \/ Collect \/ Dump

SpecDump == InitDump /\ [][NextDump]_vars

\* a JSON file whose records all have an id
HasIds(d, f) ==
    /\ Exists(d, f)
    /\ d[f].kind = "json"
    /\ \A i \in 1..Len(d[f].items) : HasKey(d[f].items[i], <<"id">>)

\* the ids of its records, in order
IdsOf(d, f) == [i \in 1..Len(d[f].items) |-> ItemOf(d[f].items[i], <<"id">>).v]

Range(q) == { q[i] : i \in 1..Len(q) }

Distinct(q) == Cardinality(Range(q)) = Len(q)

\* the ids the collect step yields a record for
RecordIds(g) == { kv[1] : kv \in Range(create_json_mapping(SomeOrder(g)).data) }

\* the ids with a record that the source file map files under f
MappedTo(g, mapping, f) ==
    { id \in RecordIds(g) : PyStr(id) \in DOMAIN mapping /\ mapping[PyStr(id)] = f }

\* a step that is a call of dump_to_json
DumpStep == calls' = calls + 1 /\ op' = "dump_to_json"

\* C13: when a file holds records with the distinct ids L and each has a
\* graph record filed under that file, a dump that writes the file writes the
\* ids of L first, in the order L, and after them each other id filed under
\* the file, once.
C13_DumpOrderPreserved ==
    [][DumpStep =>
        \A f \in DOMAIN disk :
            (/\ HasIds(disk, f)
             /\ Distinct(IdsOf(disk, f))
             /\ Range(IdsOf(disk, f)) \subseteq MappedTo(graph, json_file_mapping, f)
             /\ (outcome' = "ok" \/ disk'[f] # disk[f]))
            => /\ HasIds(disk', f)
               /\ SubSeq(IdsOf(disk', f), 1, Len(IdsOf(disk, f))) = IdsOf(disk, f)
               /\ Distinct(IdsOf(disk', f))
               /\ Range(IdsOf(disk', f)) = MappedTo(graph, json_file_mapping, f)]_vars

C13_Witness ==
    /\ op = "dump_to_json"
    /\ outcome = "ok"
    /\ IdsOf(Disk0, FILES_DIR \o <<"classes.json">>) = << <<"Foo">>, <<"Bar">> >>
    /\ IdsOf(disk, FILES_DIR \o <<"classes.json">>) = << <<"Foo">>, <<"Bar">>, <<"D">> >>

\* the files some record is filed under
Targets(g, mapping) ==
    { f \in { mapping[k] : k \in DOMAIN mapping } : MappedTo(g, mapping, f) # {} }

\* the ids a file holds, none when it is not there
OldIds(d, f) == IF Exists(d, f) THEN Range(IdsOf(d, f)) ELSE {}

\* every file a record is filed under is absent or a list of records with ids
TargetsReadable(d, g, mapping) ==
    \A f \in Targets(g, mapping) : ~Exists(d, f) \/ HasIds(d, f)

\* C14 as stated: a dump whose target files are all readable leaves each of
\* them holding every id it held before and every id filed under it, each
\* once, whether or not each id on disk has a graph record in the file's group
\* and whether or not the file lists an id twice.
C14_DumpKeepsAndAdds ==
    [][(DumpStep /\ TargetsReadable(disk, graph, json_file_mapping)
                 /\ outcome' \in {"ok", "KeyError"}) =>
        \A f \in Targets(graph, json_file_mapping) :
            /\ HasIds(disk', f)
            /\ Distinct(IdsOf(disk', f))
            /\ Range(IdsOf(disk', f)) =
                  OldIds(disk, f) \cup MappedTo(graph, json_file_mapping, f)]_vars

\* the ids a record of a registered identifier may carry: the identifier, or
\* its part after the prefix
Names(identifier) == { identifier.v, AfterColon(identifier.v) }

\* C15 as stated: after a collect step every identifier of the source file
\* map has a record, and after a dump that returned normally the file the
\* identifier is filed under holds a record of it; entities with nothing but
\* a type and entities named by a prefixed name included.
C15_RegisteredIdsWritten ==
    /\ (op = "create_json_mapping" /\ outcome = "ok") =>
          \A k \in DOMAIN json_file_mapping : \E kv \in Range(ret) : kv[1] \in Names(k)
    /\ (op = "dump_to_json" /\ outcome = "ok") =>
          \A k \in DOMAIN json_file_mapping :
              /\ HasIds(disk, json_file_mapping[k])
              /\ Range(IdsOf(disk, json_file_mapping[k])) \cap Names(k) # {}

\* the part that holds: an identifier given as a local name, with a label,
\* a comment or a parent, has a record in its file after a dump that
\* returned normally
C15_PlainIdsWritten ==
    (op = "dump_to_json" /\ outcome = "ok") =>
        \A k \in DOMAIN json_file_mapping :
            (k.t = "str" /\ k.v \in RecordIds(graph)) =>
                /\ HasIds(disk, json_file_mapping[k])
                /\ k.v \in Range(IdsOf(disk, json_file_mapping[k]))

\* the named entities of g: the local names of the references that have a type
Entities(g) == { LocalName(t[1].v) : t \in { u \in g : u[2] = RDF_.type /\ IsURIRef(u[1]) } }

\* the files a step wrote: those that are new or differ
WrittenFiles(before, after) ==
    { f \in DOMAIN after : ~Exists(before, f) \/ after[f] # before[f] }

\* how often the warning names id
Listed(warning, id) == Cardinality({ i \in 1..Len(warning.v) : warning.v[i] = PyStr(id) })

\* after a dump step, no written file holds a record of id, and the warning
\* of a dump that returned normally names id once
Flagged(id) ==
    /\ \A f \in WrittenFiles(disk, disk') : HasIds(disk', f) => id \notin Range(IdsOf(disk', f))
    /\ outcome' = "ok" => Listed(ret', id) = 1

\* C16 as stated: a dump writes no record of an entity that has no source
\* file, names it once in the warning it prints after the last file, and
\* leaves the graph as it was.
C16_UnfiledEntitiesFlagged ==
    [][DumpStep =>
        /\ graph' = graph
        /\ \A id \in Entities(graph) :
            PyStr(id) \notin DOMAIN json_file_mapping => Flagged(id)]_vars

\* the part that holds: the same for every id that has a record
C16_UnfiledRecordsFlagged ==
    [][DumpStep =>
        /\ graph' = graph
        /\ \A id \in RecordIds(graph) :
            PyStr(id) \notin DOMAIN json_file_mapping => Flagged(id)]_vars

\* the ids of the anonymous nodes of g, as str() gives them
BNodeIds(g) == { n.v : n \in { x \in Nodes(g) : IsBNode(x) } }

\* no anonymous node is a key of the source file map
C17_NoAnonymousKeys == \A k \in DOMAIN json_file_mapping : ~IsBNode(k)

\* C17 as stated: no anonymous node is a key of the source file map, the id
\* of a record of the collected mapping, or an id in the warning of a dump.
C17_NoAnonymousRecords ==
    /\ C17_NoAnonymousKeys
    /\ (op = "create_json_mapping" /\ outcome = "ok") =>
          \A kv \in Range(ret) : kv[1] \notin BNodeIds(graph)
    /\ (op = "dump_to_json" /\ outcome = "ok") =>
          \A id \in Range(ret.v) : id.v \notin BNodeIds(graph)

\* a field value with a language mapping taken as a mapping
AsMapping(v) ==
    IF v.t = "dict" THEN [t |-> "dict", items |-> Range(v.v)]
    ELSE [t |-> v.t, items |-> { <<"", v>> }]

\* the fields of a record, whatever their order
Fields(record) == { <<kv[1], AsMapping(kv[2])>> : kv \in Range(record) }

NormalOrder == << <<"id">>, <<"parent_class">>, <<"pref_label">>, <<"comment">> >>

\* the keys of the record come in the order id, parent_class, pref_label,
\* comment
InNormalOrder(record) ==
    \A i, j \in 1..Len(record) :
        i < j => \E m, n \in 1..Len(NormalOrder) :
                    m < n /\ NormalOrder[m] = record[i][1] /\ NormalOrder[n] = record[j][1]

SameRecords(old, new) ==
    /\ Len(new) = Len(old)
    /\ \A i \in 1..Len(old) : Fields(new[i]) = Fields(old[i]) /\ InNormalOrder(new[i])

\* the only call so far loaded a class file, and the next is a dump
LoadThenDump ==
    /\ calls = 1
    /\ op = "load_and_add_classes"
    /\ outcome = "ok"
    /\ DumpStep

\* the ids and parents of the records are local names, each id once
PlainNames(items) ==
    /\ Distinct([i \in 1..Len(items) |-> ItemOf(items[i], <<"id">>)])
    /\ \A i \in 1..Len(items) : \A kv \in Range(items[i]) :
          kv[1] \in {<<"id">>, <<"parent_class">>} => ~Contains(kv[2].v, ":")

\* C18 as stated: loading a class file whose records have id, pref_label,
\* comment and possibly parent_class, and dumping at once, returns normally
\* and leaves in the file, record by record, the same id and field values
\* (language mappings equal as mappings), keys in the order id, parent_class,
\* pref_label, comment.
C18_RoundTrip ==
    [][LoadThenDump =>
        /\ outcome' = "ok"
        /\ SameRecords(disk[arg.json_file].items, disk'[arg.json_file].items)]_vars

\* the round trip for files whose ids and parents are local names, each id
\* once
C18_PlainRoundTrip ==
    [][(LoadThenDump /\ PlainNames(disk[arg.json_file].items)) =>
        /\ outcome' = "ok"
        /\ SameRecords(disk[arg.json_file].items, disk'[arg.json_file].items)]_vars

\* Foo was added with the parent Bar
FooUnderBar ==
    <<Term(ONTO, <<"Foo">>), RDFS_.subClassOf, Term(ONTO, <<"Bar">>)>> \in graph

NewJson == FILES_DIR \o <<"new.json">>

\* the records of the class files a dump writes to
FiledRecords ==
    UNION { Range(disk[f].items) :
              f \in { g \in DOMAIN disk : disk[g].kind = "json"
                                          /\ \E k \in DOMAIN json_file_mapping :
                                                json_file_mapping[k] = g } }

\* C19: after a collect, and in the files after a dump that returned
\* normally, no record has a field "type"; when Foo was added with the parent
\* Bar, the record of Foo has parent_class "Bar".
C19_ParentKeptTypeDropped ==
    /\ (op = "create_json_mapping" /\ outcome = "ok") =>
          /\ \A kv \in Range(ret) : ~HasKey(kv[2], <<"type">>)
          /\ FooUnderBar =>
                /\ HasKey(ret, <<"Foo">>)
                /\ RecGet(ItemOf(ret, <<"Foo">>), <<"parent_class">>) = PyStr(<<"Bar">>)
    /\ (op = "dump_to_json" /\ outcome = "ok") =>
          /\ \A record \in FiledRecords : ~HasKey(record, <<"type">>)
          /\ (/\ FooUnderBar
              /\ PyStr(<<"Foo">>) \in DOMAIN json_file_mapping
              /\ json_file_mapping[PyStr(<<"Foo">>)] = NewJson) =>
                \E record \in Range(disk[NewJson].items) :
                    /\ RecGet(record, <<"id">>) = PyStr(<<"Foo">>)
                    /\ RecGet(record, <<"parent_class">>) = PyStr(<<"Bar">>)

\* Foo was added with the parent Bar and filed under new.json, and a dump
\* wrote that file
C19_Witness ==
    /\ op = "dump_to_json"
    /\ outcome = "ok"
    /\ FooUnderBar
    /\ Exists(disk, NewJson)
    /\ \E record \in Range(disk[NewJson].items) :
          RecGet(record, <<"id">>) = PyStr(<<"Foo">>)

\* json.load or the read of the ids fails on the file
Unreadable(d, f) == Exists(d, f) /\ ~HasIds(d, f)

\* the merge fails: an id of the file has no record in its group, or comes
\* twice
Unmergeable(d, g, mapping, f) ==
    /\ HasIds(d, f)
    /\ \/ ~Distinct(IdsOf(d, f))
       \/ ~(Range(IdsOf(d, f)) \subseteq MappedTo(g, mapping, f))

\* after holds in f the complete merged list: the records of the ids filed
\* under f, each once, those f held before first and in their order
CompleteMerge(before, after, g, mapping, f) ==
    /\ HasIds(after, f)
    /\ Distinct(IdsOf(after, f))
    /\ Range(IdsOf(after, f)) = MappedTo(g, mapping, f)
    /\ ~Exists(before, f)
       \/ /\ HasIds(before, f)
          /\ SubSeq(IdsOf(after, f), 1, Len(IdsOf(before, f))) = IdsOf(before, f)
    /\ \E scan \in ScanOrders(g) :
          \A i \in 1..Len(after[f].items) :
              after[f].items[i] =
                  Record(IdsOf(after, f)[i],
                         ItemOf(create_json_mapping(scan).data, IdsOf(after, f)[i]))

\* C20: after a dump step every file holds what it held before or the
\* complete merged list; a file some record is filed under that cannot be
\* read, has a record without id, or cannot be merged, is left as it was, and
\* the dump raises.
C20_FailedDumpLeavesFile ==
    [][DumpStep =>
        /\ \A f \in DOMAIN disk' :
              \/ Exists(disk, f) /\ disk'[f] = disk[f]
              \/ CompleteMerge(disk, disk', graph, json_file_mapping, f)
        /\ \A f \in Targets(graph, json_file_mapping) :
              (Unreadable(disk, f) \/ Unmergeable(disk, graph, json_file_mapping, f))
              => /\ outcome' # "ok"
                 /\ disk'[f] = disk[f]]_vars

\* a dump wrote new.json and then failed on broken.json, which is as it was
C20_Witness ==
    /\ op = "dump_to_json"
    /\ outcome = "JSONDecodeError"
    /\ calls = 3
    /\ PyStr(<<"E">>) \in DOMAIN json_file_mapping
    /\ disk[FILES_DIR \o <<"broken.json">>] = Malformed
    /\ Exists(disk, NewJson)

----------------------------------------------------------------------------
(* modification_utils.py: the item cache JSONOntology over the JSON files   *)
(* of a directory                                                           *)

ITEMS_DIR == <<"items">>

\* OntologyItem.__init__, lines 19-34; the parent item is kept by its id
OntologyItem(id, pref_label, comment, sourcefile, parent_entry) ==
    [id |-> id, labels |-> pref_label, comments |-> comment,
     sourcefile |-> sourcefile, parent |-> parent_entry]

\* OntologyItem.to_dict, lines 79-95, with the label and comment properties
\* of lines 52-66
to_dict(entry) ==
    LET get(d, k, default) == IF HasKey(d.v, k) THEN ItemOf(d.v, k) ELSE default
        data == << << <<"id">>, PyStr(entry.id) >>,
                   << <<"pref_label">>,
                      PyDict(<< <<"en", get(entry.labels, "en", PyStr(entry.id))>>,
                                <<"fr", get(entry.labels, "fr", PyStr(NoStr))>> >>) >>,
                   << <<"comment">>,
                      PyDict(<< <<"en", get(entry.comments, "en", PyStr(NoStr))>>,
                                <<"fr", get(entry.comments, "fr", PyStr(NoStr))>> >>) >> >>
    IN  IF entry.parent # PyNone
        THEN Append(data, << <<"parent_class">>, entry.parent >>)
        ELSE data

\* variant: the entry is stored without the test for a known id
_add_entry_unchecked(entries, entry, force) ==
    [entries |-> SetItem(entries, entry.id, entry), raised |-> "none"]

\* JSONOntology._add_entry, lines 202-209, on the dict entries
_add_entry(entries, entry, force) ==
    IF ~force /\ HasKey(entries, entry.id)
    THEN [entries |-> entries, raised |-> "ValueError"]
    ELSE [entries |-> SetItem(entries, entry.id, entry), raised |-> "none"]

\* JSONOntology.add_entry, lines 177-200
add_entry(entries, a) ==
    LET sourcefile == IF a.sourcefile = PyNone THEN NoStr ELSE a.sourcefile.v
        label == PyDict(<< <<"en", a.label_en>>, <<"fr", a.label_fr>> >>)
        comment == PyDict(<< <<"en", a.comment_en>>, <<"fr", a.comment_fr>> >>)
    IN  IF a.parent_class # PyNone /\ ~HasKey(entries, a.parent_class.v)
        THEN [entries |-> entries, raised |-> "KeyError"]
        ELSE _add_entry(entries,
                        OntologyItem(a.id.v, label, comment, sourcefile, a.parent_class),
                        FALSE)

\* the loop of lines 137-144 over the records of one file, on
\* acc = [entries, has_parents, raised]
RECURSIVE InitialItems(_, _, _)
InitialItems(acc, path, data) ==
    IF data = <<>> \/ acc.raised # "none" THEN acc
    ELSE LET item == SelectSeq(Head(data), LAMBDA kv : kv[1] # <<"parent_class">>)
             parent_id == RecGet(Head(data), <<"parent_class">>)
             named == HasKey(item, <<"id">>)
             Added(added) ==
                [entries |-> added.entries,
                 has_parents |-> IF parent_id # PyNone
                                 THEN SetItem(acc.has_parents, ItemOf(item, <<"id">>).v, parent_id)
                                 ELSE acc.has_parents,
                 raised |-> added.raised]
         IN  IF parent_id # PyNone /\ ~named THEN [acc EXCEPT !.raised = "KeyError"]
             ELSE IF { item[i][1] : i \in 1..Len(item) }
                        # { <<"id">>, <<"pref_label">>, <<"comment">> }
             THEN [acc EXCEPT !.raised = "TypeError"]
             ELSE InitialItems(
                    Added(_add_entry(acc.entries,
                                     OntologyItem(ItemOf(item, <<"id">>).v,
                                                  ItemOf(item, <<"pref_label">>),
                                                  ItemOf(item, <<"comment">>), path, PyNone),
                                     FALSE)),
                    path, Tail(data))

\* the loop of lines 133-144 over the files
RECURSIVE InitialFiles(_, _, _)
InitialFiles(acc, d, paths) ==
    IF paths = <<>> \/ acc.raised # "none" THEN acc
    ELSE IF d[Head(paths)].kind # "json" THEN [acc EXCEPT !.raised = "JSONDecodeError"]
    ELSE InitialFiles(InitialItems(acc, Head(paths), d[Head(paths)].items), d, Tail(paths))

\* lines 147-148: set_parent on each entry that named a parent
RECURSIVE LinkParents(_, _)
LinkParents(acc, has_parents) ==
    IF has_parents = <<>> \/ acc.raised # "none" THEN acc
    ELSE LET id == Head(has_parents)[1]
             parent_id == Head(has_parents)[2]
         IN  IF ~HasKey(acc.entries, parent_id.v) THEN [acc EXCEPT !.raised = "KeyError"]
             ELSE LinkParents(
                    [acc EXCEPT !.entries =
                        SetItem(@, id, [ItemOf(@, id) EXCEPT !.parent = parent_id])],
                    Tail(has_parents))

\* JSONOntology._add_initial_entries, lines 127-148, over the files d
_add_initial_entries(d, paths) ==
    LET read == InitialFiles([entries |-> <<>>, has_parents |-> <<>>, raised |-> "none"],
                             d, paths)
    IN  LinkParents(read, read.has_parents)

\* JSONOntology.dump_to_json, lines 215-233, on acc = [disk, raised]
RECURSIVE DumpEntries(_, _, _)
DumpEntries(acc, paths, entries) ==
    IF paths = <<>> \/ acc.raised # "none" THEN acc
    ELSE LET file == Head(paths)
             data == acc.disk[file].items
             existing_ids == [i \in 1..Len(data) |-> ItemOf(data[i], <<"id">>).v]
             new == SelectSeq(entries,
                              LAMBDA e : /\ e[2].sourcefile = file
                                         /\ ~Contains(existing_ids, e[2].id))
         IN  IF ~Exists(acc.disk, file) THEN [acc EXCEPT !.raised = "FileNotFoundError"]
             ELSE IF acc.disk[file].kind # "json"
             THEN [acc EXCEPT !.raised = "JSONDecodeError"]
             ELSE IF \E i \in 1..Len(data) : ~HasKey(data[i], <<"id">>)
             THEN [acc EXCEPT !.raised = "KeyError"]
             ELSE DumpEntries(
                    [acc EXCEPT !.disk =
                        WriteTo(@, file,
                                JsonFile(data \o [i \in 1..Len(new) |-> to_dict(new[i][2])]))],
                    Tail(paths), entries)

MaxItemCalls == 3

\* the second file holds one record
ItemsDisk0 ==
    [p \in { ITEMS_DIR \o <<f>> : f \in {"a.json", "b.json"} } |->
        IF p[2] = "a.json" THEN JsonFile(ClassesJson) ELSE JsonFile(<<ShortJson[1]>>)]

\* sorted(glob.glob(f"{sourcedir}/*.json")), line 111
ItemPaths == << ITEMS_DIR \o <<"a.json">>, ITEMS_DIR \o <<"b.json">> >>

\* the state after JSONOntology("items"), lines 110-119; no CreateOnto is built
InitItems ==
    /\ ONTO = NoStr
    /\ json_dir = NoStr
    /\ graph = {}
    /\ json_file_mapping = <<>>
    /\ bnodes = 0
    /\ disk = ItemsDisk0
    /\ calls = 0
    /\ op = "__init__"
    /\ arg = PyNone
    /\ outcome = "ok"
    /\ warned = FALSE
    /\ ret = PyNone
    /\ pre = {}
    /\ _paths = ItemPaths
    /\ _entries = _add_initial_entries(ItemsDisk0, ItemPaths).entries

\* an id the cache holds and a new one; no parent, a known and an unknown
\* one; no source file, a file the directory does not hold, and each of the
\* two it holds
EntryInputs ==
    [id : {PyStr(<<"Foo">>), PyStr(<<"Qux">>)},
     label_en : {PyStr(<<"c">>)}, comment_en : {PyStr(<<"c">>)},
     label_fr : {PyStr(NoStr)}, comment_fr : {PyStr(NoStr)},
     parent_class : {PyNone, PyStr(<<"Foo">>), PyStr(<<"Nope">>)},
     sourcefile : {PyNone, PyStr(ITEMS_DIR \o <<"new.json">>)}
                  \cup { PyStr(ItemPaths[i]) : i \in 1..Len(ItemPaths) }]

\* a call on the cache that left the entries r.entries and the files d
ItemCall(name, a, r, d) ==
    /\ calls < MaxItemCalls
    /\ calls' = calls + 1
    /\ op' = name
    /\ arg' = a
    /\ outcome' = IF r.raised = "none" THEN "ok" ELSE r.raised
    /\ _entries' = r.entries
    /\ disk' = d
    /\ ret' = PyNone
    /\ pre' = graph
    /\ UNCHANGED <<ONTO, json_dir, graph, json_file_mapping, bnodes, warned, _paths>>

AddEntry ==
    \E a \in EntryInputs : ItemCall("JSONOntology.add_entry", a, add_entry(_entries, a), disk)

\* _add_entry(id=..., pref_label=..., comment=..., sourcefile=..., force=force)
AddEntryForce ==
    \E a \in { x \in EntryInputs : x.parent_class = PyNone /\ x.sourcefile # PyNone },
       force \in BOOLEAN :
        ItemCall("JSONOntology._add_entry", [entry |-> a, force |-> force],
                 _add_entry(_entries,
                            OntologyItem(a.id.v,
                                         PyDict(<< <<"en", a.label_en>>, <<"fr", a.label_fr>> >>),
                                         PyDict(<< <<"en", a.comment_en>>,
                                                   <<"fr", a.comment_fr>> >>),
                                         a.sourcefile.v, PyNone),
                            force),
                 disk)

DumpItems ==
    LET r == DumpEntries([disk |-> disk, raised |-> "none"], _paths, _entries)
    IN  ItemCall("JSONOntology.dump_to_json", PyNone,
                 [entries |-> _entries, raised |-> r.raised], r.disk)

NextItems == AddEntry \/ AddEntryForce \/ DumpItems

SpecItems == InitItems /\ [][NextItems]_vars

\* a step that is a call of add_entry or _add_entry
ItemAddStep ==
    /\ calls' = calls + 1
    /\ op' \in {"JSONOntology.add_entry", "JSONOntology._add_entry"}

\* the item the call of the step gives, and whether it is forced
GivenItem == IF op' = "JSONOntology._add_entry" THEN arg'.entry ELSE arg'

Forced == op' = "JSONOntology._add_entry" /\ arg'.force

\* each id is the key of at most one entry, which is an item of that id
OneEntryEach(entries) ==
    /\ Distinct([i \in 1..Len(entries) |-> entries[i][1]])
    /\ \A i \in 1..Len(entries) : entries[i][2].id = entries[i][1]

\* C21: an add whose id the cache holds raises and leaves the entries as they
\* were, unless it is forced; a forced one returns normally and the entry of
\* the id is the new item, the other entries as they were; each id has at
\* most one entry before and after.
C21_DuplicateRaisesUnlessForced ==
    [][ItemAddStep =>
        /\ (HasKey(_entries, GivenItem.id.v) /\ ~Forced) =>
              /\ outcome' # "ok"
              /\ _entries' = _entries
        /\ (HasKey(_entries, GivenItem.id.v) /\ Forced) =>
              /\ outcome' = "ok"
              /\ Len(_entries') = Len(_entries)
              /\ \A i \in 1..Len(_entries) :
                    IF _entries[i][1] = GivenItem.id.v
                    THEN /\ _entries'[i][2].sourcefile = GivenItem.sourcefile.v
                         /\ _entries'[i][2].labels.v[1][2] = GivenItem.label_en
                         /\ _entries'[i][2].parent = PyNone
                    ELSE _entries'[i] = _entries[i]
        /\ OneEntryEach(_entries)
        /\ OneEntryEach(_entries')]_vars

\* add_entry was called with the id of an item read from the files, and raised
C21_Witness ==
    /\ op = "JSONOntology.add_entry"
    /\ arg.id = PyStr(<<"Foo">>)
    /\ arg.parent_class = PyNone
    /\ outcome = "ValueError"
    /\ ItemOf(_entries, <<"Foo">>).sourcefile = ItemPaths[1]

\* a forced add replaced the item read from the files
C21_WitnessForced ==
    /\ op = "JSONOntology._add_entry"
    /\ arg.force
    /\ outcome = "ok"
    /\ ItemOf(_entries, <<"Foo">>).sourcefile = ItemPaths[2]

\* a step that is a call of the cache's dump_to_json
ItemDumpStep == calls' = calls + 1 /\ op' = "JSONOntology.dump_to_json"

\* the files some entry names as its source file
NamedFiles(entries) ==
    { e[2].sourcefile : e \in { x \in Range(entries) : x[2].sourcefile # NoStr } }

\* the step leaves in f the records f held, in their places, and after them
\* the items of the entries whose source file is f and whose id f did not hold
AppendedTo(f) ==
    LET old == IF Exists(disk, f) THEN disk[f].items ELSE <<>>
        held == { ItemOf(old[i], <<"id">>).v : i \in 1..Len(old) }
        due == SelectSeq(_entries, LAMBDA e : e[2].sourcefile = f /\ e[1] \notin held)
    IN  /\ Exists(disk', f)
        /\ disk'[f].items = old \o [i \in 1..Len(due) |-> to_dict(due[i][2])]

\* a dump that follows a dump changes no file
SecondDumpChangesNothing ==
    (op = "JSONOntology.dump_to_json" /\ outcome = "ok") => disk' = disk

\* C22 as stated: a dump leaves in every source file its records unchanged and
\* in place, followed by exactly the entries filed under it that it did not
\* hold; an entry with no source file is written nowhere; a second dump in a
\* row changes no file.
C22_DumpAppendsMissing ==
    [][ItemDumpStep =>
        /\ outcome' = "ok"
        /\ \A f \in DOMAIN disk \cup NamedFiles(_entries) : AppendedTo(f)
        /\ DOMAIN disk' \subseteq DOMAIN disk \cup NamedFiles(_entries)
        /\ SecondDumpChangesNothing]_vars

\* the same over the files of the directory the cache was built from
C22_DirectoryFilesAppended ==
    [][ItemDumpStep =>
        /\ outcome' = "ok"
        /\ \A f \in Range(_paths) : AppendedTo(f)
        /\ DOMAIN disk' = DOMAIN disk
        /\ SecondDumpChangesNothing]_vars

\* a step that is a call of add_class, add_property or add_instance that
\* raised
FailedAddStep ==
    /\ calls' = calls + 1
    /\ op' \in {"add_class", "add_property", "add_instance"}
    /\ outcome' # "ok"

\* C23 as stated: a call of add_class, add_property or add_instance that
\* raises leaves the source file map as it was.
C23_FailedAddKeepsFileMap ==
    [][FailedAddStep => json_file_mapping' = json_file_mapping]_vars

\* the same for the calls that name no source file
C23_FailedAddWithoutFileKeepsFileMap ==
    [][(FailedAddStep /\ arg'.json_path = NoStr) =>
        json_file_mapping' = json_file_mapping]_vars

\* every id with a record has an owning file
AllFiled(g, mapping) == \A id \in RecordIds(g) : PyStr(id) \in DOMAIN mapping

\* every file a record is filed under is absent, or holds distinct ids that
\* all have a record filed under it
TargetsMergeable(d, g, mapping) ==
    \A f \in Targets(g, mapping) :
        ~Exists(d, f) \/ (HasIds(d, f) /\ ~Unmergeable(d, g, mapping, f))

\* C24 as stated: a dump in a state where every id of the collected mapping
\* has an owning file, and each owning file can be read and merged, returns
\* normally with an empty warning list.
C24_DumpWithAllFiled ==
    [][(/\ DumpStep
        /\ AllFiled(graph, json_file_mapping)
        /\ TargetsMergeable(disk, graph, json_file_mapping)) =>
            /\ outcome' = "ok"
            /\ ret' = PyList(<<>>)]_vars

\* such a dump leaves in each owning file the complete merged list, whatever
\* it raises
C24_DumpWithAllFiledWrites ==
    [][(/\ DumpStep
        /\ AllFiled(graph, json_file_mapping)
        /\ TargetsMergeable(disk, graph, json_file_mapping)) =>
            \A f \in Targets(graph, json_file_mapping) :
                CompleteMerge(disk, disk', graph, json_file_mapping, f)]_vars

\* C25 as stated: create_json_mapping raises for no graph the public
\* operations build, in whatever order the statements are scanned.
C25_CollectNeverRaises == op = "create_json_mapping" => outcome = "ok"

\* a collect raises only when some id and field have a literal next to a
\* reference, or literals with and without a language tag
C25_RaisesOnlyOnMixedValues ==
    (op = "create_json_mapping" /\ outcome # "ok") =>
        \E t, u \in graph :
            /\ LocalName(t[1].v) = LocalName(u[1].v)
            /\ translate(LocalName(t[2].v)) = translate(LocalName(u[2].v))
            /\ IsLiteral(t[3])
            /\ \/ IsURIRef(u[3])
               \/ IsLiteral(u[3]) /\ (u[3].lang = NoLang) # (t[3].lang = NoLang)

\* the statements create_json_mapping puts in a record, lines 884-901
Contributing(g) ==
    { t \in g : /\ translate(LocalName(t[2].v)) # NoStr
                /\ IsURIRef(t[3]) \/ IsLiteral(t[3]) }

\* C26 as stated: after a collect, two statements that went to the same
\* record have the same subject.
C26_OneSubjectPerRecord ==
    (op = "create_json_mapping" /\ outcome = "ok") =>
        \A t, u \in Contributing(graph) :
            (LocalName(t[1].v) = LocalName(u[1].v) /\ HasKey(ret, LocalName(t[1].v)))
            => t[1] = u[1]

\* the subjects in the namespace of the ontology have a record each
C26_OneSubjectPerRecordInNamespace ==
    (op = "create_json_mapping" /\ outcome = "ok") =>
        \A t, u \in { x \in Contributing(graph) :
                        IsURIRef(x[1]) /\ x[1].v = ONTO \o LocalName(x[1].v) } :
            LocalName(t[1].v) = LocalName(u[1].v) => t[1] = u[1]

====
